---- MODULE Spec2Model ----
(***************************************************************************)
(* Blog API (FastAPI + SQLAlchemy): users, bearer tokens, blogs, likes,    *)
(* comments and the blog listing, as a state machine over the committed    *)
(* store.  A handler whose body holds no await runs to completion on one   *)
(* worker, so the sequential specifications take each handler as one       *)
(* step; the concurrent specifications split a handler at its queries and  *)
(* its commit, as requests of different worker processes interleave.       *)
(***************************************************************************)
EXTENDS Integers, Sequences, FiniteSets, TLC

(* ---------------------------------------------------------------- bounds *)
MaxTime == 46
MaxUsers == 3
MaxBlogs == 2
MaxViews == 2
MaxLikes == 2
MaxComments == 2
MaxPerPage == 2
MaxWorkers == 2

(* ------------------------------------------------------ program constants *)
ACCESS_TOKEN_EXPIRE_MINUTES == 30
\* SQL NULL / Python None for integer columns and timestamps: no id, count
\* or time of the model, and not the integer 0 that a request can carry
None == -1
\* a JWT payload without a "sub" claim
NoSub == ""

Emails == {"a@x.com", "b@x.com", "c@x.com"}
Names == {"Ann", "Bob", "Cy"}
Passwords == {"Passw0rd", "Secr3t99"}
Titles == {"Hello", "World"}
TagNames == {"go", "rust"}
CategoryIds == {1, 2}

VARIABLES
    users,        \* users table: id -> row
    tokens,       \* tokens[i]: the token the client that last logged in as user i holds
    now,          \* datetime.utcnow(), in minutes
    categories,   \* ids of the categories table
    tags,         \* the tags table: row i has id i and name tags[i]
    blogs,        \* blogs table: id -> row
    nextBlogId,   \* next primary key of blogs
    likes,        \* likes table: set of rows [id, blog_id, user_id]
    nextLikeId,   \* next primary key of likes
    comments,     \* comments table: set of rows [id, blog_id, user_id, parent_id]
    nextCommentId,\* next primary key of comments
    reqs,         \* in-flight requests of the concurrent specifications
    last          \* the last response sent

vars == <<users, tokens, now, categories, tags, blogs, nextBlogId, likes,
          nextLikeId, comments, nextCommentId, reqs, last>>

(* ------------------------------------------------------------- passwords *)
\* the passwords of the model besides those of the seeded users: one of
\* fewer than 6 characters, one of exactly 72 bytes, and that one with a
\* further character
ShortPassword == "abc"
LongPassword == "72 bytes"
LongerPassword == "72 bytes and 1"

PasswordLen(p) ==
    CASE p = ShortPassword -> 3
      [] p = LongPassword -> 72
      [] p = LongerPassword -> 73
      [] OTHER -> 8

\* bcrypt reads the first 72 bytes of the password
Truncated(p) == IF p = LongerPassword THEN LongPassword ELSE p

\* pwd_context.hash (CryptContext of bcrypt); the salt is left out
hash_password(p) == <<"bcrypt", Truncated(p)>>

verify_password(plain, hashed) == hashed = hash_password(plain)

(* ---------------------------------------------------------------- tokens *)
\* no Authorization header
NoToken == [present |-> FALSE, signed |-> FALSE, sub |-> NoSub, exp |-> 0]

create_access_token(sub, t) ==
    [present |-> TRUE, signed |-> TRUE, sub |-> sub,
     exp |-> t + ACCESS_TOKEN_EXPIRE_MINUTES]

\* create_access_token with expires_delta: a delta that is None (or zero)
\* gives the configured lifetime
create_access_token_in(sub, t, expires_delta) ==
    [present |-> TRUE, signed |-> TRUE, sub |-> sub,
     exp |-> IF expires_delta # None THEN t + expires_delta
             ELSE t + ACCESS_TOKEN_EXPIRE_MINUTES]

\* mutant: the exp claim is not looked at
verify_token_NoExpiry(token, t) ==
    IF token.signed /\ token.sub # NoSub
    THEN [ok |-> TRUE, email |-> token.sub]
    ELSE [ok |-> FALSE, email |-> NoSub]

\* jwt.decode: signature, then exp (expired when exp < now), then "sub"
verify_token(token, t) ==
    IF token.signed /\ ~(token.exp < t) /\ token.sub # NoSub
    THEN [ok |-> TRUE, email |-> token.sub]
    ELSE [ok |-> FALSE, email |-> NoSub]

\* db.query(User).filter(User.email == e).first(): id of the row, None if none
UserByEmail(us, e) ==
    IF \E i \in DOMAIN us : us[i].email = e
    THEN CHOOSE i \in DOMAIN us : us[i].email = e
    ELSE None

\* mutant: the token's claims are trusted, the active flag is not re-read
get_current_user_TrustingToken(token, us, t) ==
    IF ~token.present THEN [status |-> 401, user |-> None]
    ELSE LET v == verify_token(token, t)
             u == UserByEmail(us, v.email)
         IN  IF ~v.ok THEN [status |-> 401, user |-> None]
             ELSE IF u = None THEN [status |-> 401, user |-> None]
             ELSE [status |-> 200, user |-> u]

get_current_user(token, us, t) ==
    IF ~token.present THEN [status |-> 401, user |-> None]
    ELSE LET v == verify_token(token, t)
             u == UserByEmail(us, v.email)
         IN  IF ~v.ok THEN [status |-> 401, user |-> None]
             ELSE IF u = None THEN [status |-> 401, user |-> None]
             ELSE IF ~us[u].is_active THEN [status |-> 401, user |-> None]
             ELSE [status |-> 200, user |-> u]

\* Depends(oauth2_scheme) runs first: OAuth2PasswordBearer, built with its
\* default auto_error, answers 401 to a request without a bearer token; the
\* function body turns every other failure into None (anonymous)
get_optional_current_user(token, us, t) ==
    IF ~token.present THEN [status |-> 401, user |-> None]
    ELSE LET v == verify_token(token, t)
             u == UserByEmail(us, v.email)
         IN  IF ~v.ok THEN [status |-> 200, user |-> None]
             ELSE IF u # None /\ us[u].is_active THEN [status |-> 200, user |-> u]
             ELSE [status |-> 200, user |-> None]

(* ------------------------------------------------------------- responses *)
\* seq alternates with every response, so that each response is a step
Resp(op, status, tok, caller, target) ==
    [seq |-> 1 - last.seq, op |-> op, status |-> status, tok |-> tok,
     caller |-> caller, target |-> target, body |-> {}, message |-> "", is_liked |-> FALSE,
     total |-> 0, pages |-> 0, items |-> <<>>]

\* tokens a client may present: the ones login handed out, none at all, a
\* forged one, and a signed one without a subject
ForgedToken == [present |-> TRUE, signed |-> FALSE, sub |-> "a@x.com", exp |-> MaxTime]
SubjectlessToken == [present |-> TRUE, signed |-> TRUE, sub |-> NoSub, exp |-> MaxTime]
Held == {tokens[i] : i \in DOMAIN tokens} \cup {NoToken}
Presented == Held \cup {ForgedToken, SubjectlessToken}

UserRow(name, email, password, active, admin) ==
    [name |-> name, email |-> email, password |-> hash_password(password),
     is_active |-> active, is_admin |-> admin]

(* ------------------------------------------------------- auth_routes.py *)
register_user(name, email, password) ==
    /\ Cardinality(DOMAIN users) < MaxUsers
    /\ IF UserByEmail(users, email) # None
       THEN /\ last' = Resp("register_user", 400, NoToken, None, None)
            /\ UNCHANGED users
       ELSE LET id == Cardinality(DOMAIN users) + 1
            IN  /\ users' = [i \in DOMAIN users \cup {id} |->
                                IF i = id THEN UserRow(name, email, password, TRUE, FALSE)
                                ELSE users[i]]
                /\ last' = Resp("register_user", 201, NoToken, None, id)
    /\ UNCHANGED <<tokens, now, categories, tags, blogs, nextBlogId, likes,
                   nextLikeId, comments, nextCommentId, reqs>>

login_user(username, password) ==
    LET u == UserByEmail(users, username)
        t == create_access_token(users[u].email, now)
    IN  /\ IF u = None \/ ~users[u].is_active
              \/ ~verify_password(password, users[u].password)
           THEN /\ last' = Resp("login_user", 401, NoToken, None, None)
                /\ UNCHANGED tokens
           ELSE /\ tokens' = [tokens EXCEPT ![u] = t]
                /\ last' = Resp("login_user", 200, t, u, u)
        /\ UNCHANGED <<users, now, categories, tags, blogs, nextBlogId, likes,
                       nextLikeId, comments, nextCommentId, reqs>>

\* UserLogin.email is an EmailStr: a string that is not an address is
\* refused (Refused), the domain of an address is lowercased
Refused == "not an email address"

EmailStr(s) ==
    CASE s = "bob" -> Refused
      [] s = "b@X.com" -> "b@x.com"
      [] OTHER -> s

login_with_email(email, password) ==
    LET e == EmailStr(email)
        u == UserByEmail(users, e)
        t == create_access_token(users[u].email, now)
    IN  /\ IF e = Refused
           THEN /\ last' = Resp("login_with_email", 422, NoToken, None, None)
                /\ UNCHANGED tokens
           ELSE IF u = None \/ ~verify_password(password, users[u].password)
                   \/ ~users[u].is_active
           THEN /\ last' = Resp("login_with_email", 401, NoToken, None, None)
                /\ UNCHANGED tokens
           ELSE /\ tokens' = [tokens EXCEPT ![u] = t]
                /\ last' = Resp("login_with_email", 200, t, u, u)
        /\ UNCHANGED <<users, now, categories, tags, blogs, nextBlogId, likes,
                       nextLikeId, comments, nextCommentId, reqs>>

change_password(tok, old_password, new_password) ==
    LET a == get_current_user(tok, users, now)
        st == IF a.status # 200 THEN a.status
              ELSE IF ~verify_password(old_password, users[a.user].password) THEN 400
              ELSE IF PasswordLen(new_password) < 6 THEN 400
              ELSE IF new_password = old_password THEN 400
              ELSE 200
    IN  /\ last' = [Resp("change_password", st, tok, a.user, a.user) EXCEPT
                       !.body = {[old_password |-> old_password,
                                  new_password |-> new_password]}]
        /\ users' = IF st = 200
                    THEN [users EXCEPT ![a.user].password = hash_password(new_password)]
                    ELSE users
        /\ UNCHANGED <<tokens, now, categories, tags, blogs, nextBlogId, likes,
                       nextLikeId, comments, nextCommentId, reqs>>

\* a request to a route that declares Depends(get_optional_current_user)
optional_user(tok) ==
    LET a == get_optional_current_user(tok, users, now)
    IN  /\ last' = Resp("get_optional_current_user", a.status, tok, a.user, None)
        /\ UNCHANGED <<users, tokens, now, categories, tags, blogs, nextBlogId,
                       likes, nextLikeId, comments, nextCommentId, reqs>>

get_current_user_info(tok) ==
    LET a == get_current_user(tok, users, now)
    IN  /\ last' = Resp("get_current_user_info", a.status, tok, a.user, a.user)
        /\ UNCHANGED <<users, tokens, now, categories, tags, blogs, nextBlogId,
                       likes, nextLikeId, comments, nextCommentId, reqs>>

get_all_users(tok) ==
    LET a == get_current_user(tok, users, now)
        st == IF a.status # 200 THEN a.status
              ELSE IF ~users[a.user].is_admin THEN 403
              ELSE 200
    IN  /\ last' = Resp("get_all_users", st, tok, a.user, None)
        /\ UNCHANGED <<users, tokens, now, categories, tags, blogs, nextBlogId,
                       likes, nextLikeId, comments, nextCommentId, reqs>>

\* mutant: an admin may toggle their own status
toggle_user_status_OwnStatus(tok, user_id) ==
    LET a == get_current_user(tok, users, now)
        st == IF a.status # 200 THEN a.status
              ELSE IF ~users[a.user].is_admin THEN 403
              ELSE IF user_id \notin DOMAIN users THEN 404
              ELSE 200
    IN  /\ last' = Resp("toggle_user_status", st, tok, a.user, user_id)
        /\ users' = IF st = 200
                    THEN [users EXCEPT ![user_id].is_active = ~users[user_id].is_active]
                    ELSE users
        /\ UNCHANGED <<tokens, now, categories, tags, blogs, nextBlogId, likes,
                       nextLikeId, comments, nextCommentId, reqs>>

toggle_user_status(tok, user_id) ==
    LET a == get_current_user(tok, users, now)
        st == IF a.status # 200 THEN a.status
              ELSE IF ~users[a.user].is_admin THEN 403
              ELSE IF user_id \notin DOMAIN users THEN 404
              ELSE IF user_id = a.user THEN 400
              ELSE 200
    IN  /\ last' = Resp("toggle_user_status", st, tok, a.user, user_id)
        /\ users' = IF st = 200
                    THEN [users EXCEPT ![user_id].is_active = ~users[user_id].is_active]
                    ELSE users
        /\ UNCHANGED <<tokens, now, categories, tags, blogs, nextBlogId, likes,
                       nextLikeId, comments, nextCommentId, reqs>>

(* ------------------------------------------------------- user_routes.py *)
\* mutant: the update also writes is_admin, from the flag the body carries
ApplyUserUpdate_Promotes(row, d) ==
    [row EXCEPT !.name = IF "name" \in d.keys THEN d.name ELSE @,
                !.email = IF "email" \in d.keys THEN d.email ELSE @,
                !.is_active = IF "is_active" \in d.keys THEN d.is_active ELSE @,
                !.is_admin = IF "is_active" \in d.keys THEN d.is_active ELSE @]

\* UserUpdate.dict(exclude_unset=True): d.keys are the fields the body sets
ApplyUserUpdate(row, d) ==
    [row EXCEPT !.name = IF "name" \in d.keys THEN d.name ELSE @,
                !.email = IF "email" \in d.keys THEN d.email ELSE @,
                !.is_active = IF "is_active" \in d.keys THEN d.is_active ELSE @]

update_my_profile(tok, d) ==
    LET a == get_current_user(tok, users, now)
        st == IF a.status # 200 THEN a.status
              ELSE IF "email" \in d.keys /\ d.email # users[a.user].email
                      /\ UserByEmail(users, d.email) # None THEN 400
              ELSE 200
    IN  /\ last' = Resp("update_my_profile", st, tok, a.user, a.user)
        /\ users' = IF st = 200
                    THEN [users EXCEPT ![a.user] = ApplyUserUpdate(@, d)]
                    ELSE users
        /\ UNCHANGED <<tokens, now, categories, tags, blogs, nextBlogId, likes,
                       nextLikeId, comments, nextCommentId, reqs>>

\* mutant: the update is open to every authenticated user
admin_update_user_AnyCaller(tok, user_id, d) ==
    LET a == get_current_user(tok, users, now)
        st == IF a.status # 200 THEN a.status
              ELSE IF user_id \notin DOMAIN users THEN 404
              ELSE IF "email" \in d.keys /\ d.email # users[user_id].email
                      /\ UserByEmail(users, d.email) # None THEN 400
              ELSE 200
    IN  /\ last' = Resp("admin_update_user", st, tok, a.user, user_id)
        /\ users' = IF st = 200
                    THEN [users EXCEPT ![user_id] = ApplyUserUpdate(@, d)]
                    ELSE users
        /\ UNCHANGED <<tokens, now, categories, tags, blogs, nextBlogId, likes,
                       nextLikeId, comments, nextCommentId, reqs>>

admin_update_user(tok, user_id, d) ==
    LET a == get_current_user(tok, users, now)
        st == IF a.status # 200 THEN a.status
              ELSE IF ~users[a.user].is_admin THEN 403
              ELSE IF user_id \notin DOMAIN users THEN 404
              ELSE IF "email" \in d.keys /\ d.email # users[user_id].email
                      /\ UserByEmail(users, d.email) # None THEN 400
              ELSE 200
    IN  /\ last' = Resp("admin_update_user", st, tok, a.user, user_id)
        /\ users' = IF st = 200
                    THEN [users EXCEPT ![user_id] = ApplyUserUpdate(@, d)]
                    ELSE users
        /\ UNCHANGED <<tokens, now, categories, tags, blogs, nextBlogId, likes,
                       nextLikeId, comments, nextCommentId, reqs>>

\* a worker with no request in hand
Idle == [pc |-> "idle"]

\* mutant: the users table has no unique index on email
EmailTaken_NoIndex(us, user_id, email) == FALSE

\* User.email is unique: a row may not take an email another row holds
EmailTaken(us, user_id, email) ==
    \E i \in DOMAIN us \ {user_id} : us[i].email = email

\* register_user, update_my_profile or admin_update_user served by worker w
\* while other workers serve theirs, up to the email query; d carries the
\* body (for register_user the name and email of the new user)
email_check(w, op, tok, user_id, d) ==
    LET a == IF op = "register_user" THEN [status |-> 200, user |-> None]
             ELSE get_current_user(tok, users, now)
        id == IF op = "update_my_profile" THEN a.user ELSE user_id
        st == IF a.status # 200 THEN a.status
              ELSE IF op = "register_user"
                   THEN IF UserByEmail(users, d.email) # None THEN 400 ELSE 200
              ELSE IF op = "admin_update_user" /\ ~users[a.user].is_admin THEN 403
              ELSE IF id \notin DOMAIN users THEN 404
              ELSE IF "email" \in d.keys /\ d.email # users[id].email
                      /\ UserByEmail(users, d.email) # None THEN 400
              ELSE 200
        registering == {v \in DOMAIN reqs : reqs[v].pc = "save" /\ reqs[v].op = "register_user"}
    IN  /\ reqs[w].pc = "idle"
        /\ op = "register_user" =>
              Cardinality(DOMAIN users) + Cardinality(registering) < MaxUsers
        /\ IF st # 200
           THEN /\ last' = [Resp(op, st, tok, a.user, id) EXCEPT !.body = {d}]
                /\ UNCHANGED reqs
           ELSE /\ reqs' = [reqs EXCEPT ![w] = [pc |-> "save", op |-> op, tok |-> tok,
                                                 user |-> a.user, user_id |-> id, d |-> d]]
                /\ UNCHANGED last
        /\ UNCHANGED <<users, tokens, now, categories, tags, blogs, nextBlogId,
                       likes, nextLikeId, comments, nextCommentId>>

\* ... and its db.commit(): the INSERT or UPDATE of the row, refused by the
\* unique index when another row has taken the email meanwhile
email_commit(w) ==
    LET r == reqs[w]
        id == IF r.op = "register_user" THEN Cardinality(DOMAIN users) + 1 ELSE r.user_id
        writes == r.op = "register_user" \/ "email" \in r.d.keys
        ok == ~(writes /\ EmailTaken(users, id, r.d.email))
    IN  /\ r.pc = "save"
        /\ reqs' = [reqs EXCEPT ![w] = Idle]
        /\ last' = [Resp(r.op, IF ~ok THEN 500 ELSE IF r.op = "register_user" THEN 201 ELSE 200,
                         r.tok, r.user, id)
                       EXCEPT !.body = {r.d}]
        /\ users' = IF ~ok THEN users
                    ELSE IF r.op = "register_user"
                    THEN [i \in DOMAIN users \cup {id} |->
                            IF i = id THEN UserRow(r.d.name, r.d.email, "Passw0rd", TRUE, FALSE)
                            ELSE users[i]]
                    ELSE [users EXCEPT ![id] = ApplyUserUpdate(@, r.d)]
        /\ UNCHANGED <<tokens, now, categories, tags, blogs, nextBlogId,
                       likes, nextLikeId, comments, nextCommentId>>

(* ------------------------------------------------------- blog_routes.py *)
\* str.strip().lower() on the tag names a client may send
Normalize(raw) ==
    CASE raw = "Go" -> "go"
      [] raw = " go " -> "go"
      [] raw = "Rust" -> "rust"
      [] raw = "  " -> ""
      [] OTHER -> raw

\* the loop over tag_names: the normalised, non-empty names in request order
\* (one entry per blog.tags.append)
RECURSIVE Appended(_)
Appended(names) ==
    IF names = <<>> THEN <<>>
    ELSE LET n == Normalize(Head(names))
         IN  IF n = "" THEN Appended(Tail(names))
             ELSE <<n>> \o Appended(Tail(names))

Range(seq) == {seq[i] : i \in DOMAIN seq}

\* the names appended more than once
Repeated(appended) ==
    {appended[i] : i \in {k \in DOMAIN appended :
                             \E j \in DOMAIN appended : j # k /\ appended[j] = appended[k]}}

\* the unit of work inserts one blog_tags row per appended tag that the blog
\* did not hold when the request began; two rows with one (blog_id, tag_id)
\* break the association's primary key
TagsCommit(held, appended) == Repeated(appended) \subseteq held

\* tag = query(Tag).filter(name).first(); if not tag: add(Tag(name)); flush()
GetOrCreate(ts, name) == IF name \in Range(ts) THEN ts ELSE Append(ts, name)

\* the tags table after the loop over the request's names
RECURSIVE TagsAfter(_, _)
TagsAfter(ts, appended) ==
    IF appended = <<>> THEN ts
    ELSE TagsAfter(GetOrCreate(ts, Head(appended)), Tail(appended))

\* a text column that holds NULL, and a body or excerpt left out of a request
NoText == "<null>"

\* bodies of the model: one of at most 300 characters, one longer
Bodies == {"short body", "long body"}

\* the requests of the model carry the short body and no excerpt unless
\* they are built with the text operators below
BlogCreate(title, category_id, is_published, is_featured, tag_names) ==
    [title |-> title, body |-> "short body", excerpt |-> NoText,
     category_id |-> category_id, is_published |-> is_published,
     is_featured |-> is_featured, tag_names |-> tag_names]

\* create_blog's excerpt: the one of the request, or else the body, cut to
\* 297 characters and "..." when it is longer than 300
Excerpt(d) ==
    IF d.excerpt # NoText THEN d.excerpt
    ELSE IF d.body = "long body" THEN "long body[:297]..." ELSE d.body

\* BlogUpdate.dict(exclude_unset=True): keys are the fields the body sets,
\* nulls those among them it sets to null
BlogUpdate(keys, nulls, title, category_id, is_published, is_featured, tag_names) ==
    [keys |-> keys, nulls |-> nulls, title |-> title, body |-> "short body",
     excerpt |-> NoText, category_id |-> category_id,
     is_published |-> is_published, is_featured |-> is_featured,
     tag_names |-> tag_names]

\* mutant: the admin override is lost
MayModify_OwnerOnly(row, caller, us) == row.user_id = caller

\* "blog.user_id != current_user.id and not current_user.is_admin" refuses
MayModify(row, caller, us) == row.user_id = caller \/ us[caller].is_admin

Put(f, k, v) == [x \in DOMAIN f \cup {k} |-> IF x = k THEN v ELSE f[x]]
Drop(f, k) == [x \in DOMAIN f \ {k} |-> f[x]]

\* TagResponse.name has min_length 2: of the tag names of the model only
\* "x" is shorter
TagResponseValid(name) == name # "x"

\* BlogResponse.from_orm(blog), run after the handler's commit: it validates
\* the blog's tags against TagResponse
BlogResponseValid(row) == \A n \in row.tags : TagResponseValid(n)

\* st is the outcome up to db.commit(); a response that cannot be built
\* turns a committed request into a 500
create_blog(tok, d) ==
    LET a == get_current_user(tok, users, now)
        appended == Appended(d.tag_names)
        st == IF a.status # 200 THEN a.status
              ELSE IF d.category_id # None /\ d.category_id \notin categories THEN 400
              ELSE IF ~TagsCommit({}, appended) THEN 500
              ELSE 201
        row == [user_id |-> a.user, title |-> d.title, body |-> d.body,
                excerpt |-> Excerpt(d), category_id |-> d.category_id,
                is_published |-> d.is_published, is_featured |-> d.is_featured,
                view_count |-> 0, created_at |-> now,
                published_at |-> IF d.is_published THEN now ELSE None,
                tags |-> Range(appended)]
    IN  /\ nextBlogId <= MaxBlogs
        /\ last' = [Resp("create_blog", IF st = 201 /\ ~BlogResponseValid(row) THEN 500 ELSE st,
                         tok, a.user, IF st = 201 THEN nextBlogId ELSE None)
                       EXCEPT !.body = {d}]
        /\ IF st = 201
           THEN /\ blogs' = Put(blogs, nextBlogId, row)
                /\ nextBlogId' = nextBlogId + 1
                /\ tags' = TagsAfter(tags, appended)
           ELSE UNCHANGED <<blogs, nextBlogId, tags>>
        /\ UNCHANGED <<users, tokens, now, categories, likes, nextLikeId, comments, nextCommentId, reqs>>

get_blog(tok, blog_id) ==
    LET a == get_current_user(tok, users, now)
        st == IF a.status # 200 THEN a.status
              ELSE IF blog_id \notin DOMAIN blogs THEN 404
              ELSE 200
    IN  /\ st = 200 => blogs[blog_id].view_count < MaxViews
        /\ last' = [Resp("get_blog", IF st = 200 /\ ~BlogResponseValid(blogs[blog_id])
                                     THEN 500 ELSE st,
                         tok, a.user, blog_id) EXCEPT
                       !.is_liked = /\ st = 200 /\ BlogResponseValid(blogs[blog_id])
                                    /\ \E l \in likes : l.blog_id = blog_id /\ l.user_id = a.user]
        /\ blogs' = IF st = 200
                    THEN [blogs EXCEPT ![blog_id].view_count = @ + 1]
                    ELSE blogs
        /\ UNCHANGED <<users, tokens, now, categories, tags, nextBlogId, likes,
                       nextLikeId, comments, nextCommentId, reqs>>

\* BlogFilter: None (or an empty list) leaves a filter out
BlogFilter(category_id, tag_names, is_published, is_featured, author_id, search) ==
    [category_id |-> category_id, tag_names |-> tag_names,
     is_published |-> is_published, is_featured |-> is_featured,
     author_id |-> author_id, search |-> search]

\* title ILIKE %term% for the titles and search terms of the model
ILike(title, term) ==
    \/ term = "wor" /\ title = "World"
    \/ term = "ell" /\ title = "Hello"

\* the WHERE clause on the blogs table; is_published and is_featured are
\* filters when not None, given here as sets of accepted values
Matches(row, f) ==
    /\ f.category_id # None => row.category_id = f.category_id
    /\ row.is_published \in f.is_published
    /\ row.is_featured \in f.is_featured
    /\ f.author_id # None => row.user_id = f.author_id
    /\ f.search # "" => ILike(row.title, f.search)

\* the rows of the filtered query: one per blog, or with tag_names one per
\* (blog, tag) pair of the join with blog_tags and tags
QueryRows(bs, f) ==
    IF f.tag_names = {}
    THEN {<<b, "">> : b \in {x \in DOMAIN bs : Matches(bs[x], f)}}
    ELSE {r \in (DOMAIN bs) \X f.tag_names :
             Matches(bs[r[1]], f) /\ r[2] \in bs[r[1]].tags}

\* alphabetical order of the titles
TitleRank(title) == CASE title = "Hello" -> 1 [] title = "World" -> 2 [] OTHER -> 0

BodyRank(body) == CASE body = "long body" -> 1 [] body = "short body" -> 2 [] OTHER -> 0

\* the columns of Blog that the model carries, and an attribute of the class
\* that is no column
BlogColumns == {"id", "title", "body", "view_count", "created_at"}
BlogAttributes == BlogColumns \cup {"metadata"}

\* getattr(Blog, sort_by, Blog.created_at): the attribute of that name when
\* the class has one, whatever it is
SortColumn(sort_by) == IF sort_by \in BlogAttributes THEN sort_by ELSE "created_at"

\* the value ORDER BY compares for blog b
SortKey(bs, b, sort_by) ==
    CASE SortColumn(sort_by) = "id" -> b
      [] SortColumn(sort_by) = "title" -> TitleRank(bs[b].title)
      [] SortColumn(sort_by) = "body" -> BodyRank(bs[b].body)
      [] SortColumn(sort_by) = "view_count" -> bs[b].view_count
      [] OTHER -> bs[b].created_at

\* sort_order.lower()
Lower(sort_order) == IF sort_order = "ASC" THEN "asc" ELSE sort_order

\* r may come before q under ORDER BY
Before(bs, r, q, sort_by, sort_order) ==
    IF Lower(sort_order) = "asc"
    THEN SortKey(bs, r[1], sort_by) <= SortKey(bs, q[1], sort_by)
    ELSE SortKey(bs, r[1], sort_by) >= SortKey(bs, q[1], sort_by)

\* every order the database may return the rows in: rows with equal keys
\* come in any order
RECURSIVE Ordered(_, _, _, _)
Ordered(bs, rows, sort_by, sort_order) ==
    IF rows = {} THEN {<<>>}
    ELSE UNION {{<<r>> \o rest : rest \in Ordered(bs, rows \ {r}, sort_by, sort_order)} :
                  r \in {x \in rows : \A q \in rows : Before(bs, x, q, sort_by, sort_order)}}

\* query.count(): the rows of the joined query
Total(rows) == Cardinality(rows)

\* (total + per_page - 1) // per_page
Pages(total, per_page) == (total + per_page - 1) \div per_page

\* the ORM returns each entity of the result once, in order of first appearance
RECURSIVE Unique(_)
Unique(ids) ==
    IF ids = <<>> THEN <<>>
    ELSE LET front == Unique(SubSeq(ids, 1, Len(ids) - 1))
             x == ids[Len(ids)]
         IN  IF x \in Range(front) THEN front ELSE Append(front, x)

\* query.offset(offset).limit(per_page).all()
PageItems(ordered, page, per_page) ==
    LET offset == (page - 1) * per_page
        lo == offset + 1
        hi == IF offset + per_page < Len(ordered) THEN offset + per_page ELSE Len(ordered)
    IN  Unique([i \in 1..(IF hi >= lo THEN hi - lo + 1 ELSE 0) |-> ordered[lo + i - 1][1]])

get_blogs(tok, f, page, per_page, sort_by, sort_order) ==
    LET a == get_current_user(tok, users, now)
        rows == QueryRows(blogs, f)
        total == Total(rows)
    IN  /\ \E ordered \in Ordered(blogs, rows, sort_by, sort_order) :
              last' = IF a.status # 200
                      THEN Resp("get_blogs", a.status, tok, a.user, None)
                      \* asc() and desc() refuse what is no column expression
                      ELSE IF SortColumn(sort_by) \notin BlogColumns
                      THEN [Resp("get_blogs", 500, tok, a.user, None) EXCEPT
                               !.body = {[sort_by |-> sort_by, sort_order |-> sort_order]}]
                      ELSE IF \E b \in Range(PageItems(ordered, page, per_page)) :
                                 ~BlogResponseValid(blogs[b])
                      THEN Resp("get_blogs", 500, tok, a.user, None)
                      ELSE [Resp("get_blogs", 200, tok, a.user, None) EXCEPT
                               !.body = {[f |-> f, page |-> page, per_page |-> per_page,
                                          ordered |-> ordered, sort_by |-> sort_by,
                                          sort_order |-> sort_order]},
                               !.total = total,
                               !.pages = Pages(total, per_page),
                               !.items = PageItems(ordered, page, per_page)]
        /\ UNCHANGED <<users, tokens, now, categories, tags, blogs, nextBlogId,
                       likes, nextLikeId, comments, nextCommentId, reqs>>

\* mutant: a published blog is stamped again by every update that sends
\* is_published = true
UpdatedRow_Restamps(row, d, t) ==
    [row EXCEPT
        !.published_at = IF "is_published" \in d.keys
                         THEN IF d.is_published THEN t ELSE None
                         ELSE @,
        !.title = IF "title" \in d.keys THEN d.title ELSE @,
        !.is_published = IF "is_published" \in d.keys THEN d.is_published ELSE @]

\* mutant: an update that sends is_published stores the flag and leaves
\* published_at as it was
UpdatedRow_FlagOnly(row, d, t) ==
    [row EXCEPT
        !.title = IF "title" \in d.keys THEN d.title ELSE @,
        !.is_published = IF "is_published" \in d.keys THEN d.is_published ELSE @]

\* mutant: the update writes every field of the body, supplied or not
UpdatedRow_WritesAll(row, d, t) ==
    [row EXCEPT
        !.published_at = IF d.is_published THEN IF row.published_at = None THEN t ELSE @
                         ELSE None,
        !.title = d.title,
        !.body = d.body,
        !.excerpt = d.excerpt,
        !.category_id = d.category_id,
        !.is_published = d.is_published,
        !.is_featured = d.is_featured,
        !.tags = Range(Appended(d.tag_names))]

\* mutant: only published_only decides about the publication filter
Visible_AsRequested(row, user_id, caller, published_only) ==
    row.user_id = user_id /\ (published_only => row.is_published)

\* user_routes.py, get_user_blogs: the blogs of user_id, the published ones
\* only when published_only is set or the caller is another user
Visible(row, user_id, caller, published_only) ==
    /\ row.user_id = user_id
    /\ (published_only \/ caller # user_id) => row.is_published

get_user_blogs(tok, user_id, page, per_page, published_only) ==
    LET a == get_current_user(tok, users, now)
        rows == {<<b, "">> : b \in {x \in DOMAIN blogs :
                                       Visible(blogs[x], user_id, a.user, published_only)}}
        req == [user_id |-> user_id, page |-> page, per_page |-> per_page,
                published_only |-> published_only]
    IN  /\ \E ordered \in Ordered(blogs, rows, "created_at", "desc") :
              last' = IF a.status # 200
                      THEN Resp("get_user_blogs", a.status, tok, a.user, None)
                      ELSE IF user_id \notin DOMAIN users
                      THEN Resp("get_user_blogs", 404, tok, a.user, None)
                      ELSE IF \E b \in Range(PageItems(ordered, page, per_page)) :
                                 ~BlogResponseValid(blogs[b])
                      THEN Resp("get_user_blogs", 500, tok, a.user, None)
                      ELSE [Resp("get_user_blogs", 200, tok, a.user, None) EXCEPT
                               !.body = {req},
                               !.items = PageItems(ordered, page, per_page)]
        /\ UNCHANGED <<users, tokens, now, categories, tags, blogs, nextBlogId,
                       likes, nextLikeId, comments, nextCommentId, reqs>>

\* the publication rule, then setattr for every supplied field but tag_names
UpdatedRow(row, d, t) ==
    [row EXCEPT
        !.published_at = IF "is_published" \in d.keys
                         THEN IF "is_published" \notin d.nulls /\ d.is_published
                              THEN IF row.published_at = None THEN t ELSE @
                              ELSE None
                         ELSE @,
        !.title = IF "title" \in d.keys THEN d.title ELSE @,
        !.body = IF "body" \in d.keys THEN d.body ELSE @,
        !.excerpt = IF "excerpt" \in d.keys
                    THEN IF "excerpt" \in d.nulls THEN NoText ELSE d.excerpt
                    ELSE @,
        !.category_id = IF "category_id" \in d.keys
                        THEN IF "category_id" \in d.nulls THEN None ELSE d.category_id
                        ELSE @,
        !.is_published = IF "is_published" \in d.keys THEN d.is_published ELSE @,
        !.is_featured = IF "is_featured" \in d.keys THEN d.is_featured ELSE @,
        !.tags = IF "tag_names" \in d.keys THEN Range(Appended(d.tag_names)) ELSE @]

update_blog(tok, blog_id, d) ==
    LET a == get_current_user(tok, users, now)
        st == IF a.status # 200 THEN a.status
              ELSE IF blog_id \notin DOMAIN blogs THEN 404
              ELSE IF ~MayModify(blogs[blog_id], a.user, users) THEN 403
              ELSE IF "category_id" \in d.keys /\ "category_id" \notin d.nulls
                      /\ d.category_id \notin categories THEN 400
              \* NOT NULL columns, iterating a null tag_names, duplicate blog_tags rows
              ELSE IF d.nulls \cap {"title", "body", "is_published", "is_featured", "tag_names"} # {}
                      THEN 500
              ELSE IF "tag_names" \in d.keys
                      /\ ~TagsCommit(blogs[blog_id].tags, Appended(d.tag_names)) THEN 500
              ELSE 200
    IN  /\ last' = [Resp("update_blog",
                         IF st = 200 /\ ~BlogResponseValid(UpdatedRow(blogs[blog_id], d, now))
                         THEN 500 ELSE st,
                         tok, a.user, blog_id) EXCEPT !.body = {d}]
        /\ IF st = 200
           THEN /\ blogs' = [blogs EXCEPT ![blog_id] = UpdatedRow(@, d, now)]
                /\ tags' = IF "tag_names" \in d.keys
                           THEN TagsAfter(tags, Appended(d.tag_names))
                           ELSE tags
           ELSE UNCHANGED <<blogs, tags>>
        /\ UNCHANGED <<users, tokens, now, categories, nextBlogId, likes, nextLikeId,
                       comments, nextCommentId, reqs>>

\* mutant: the blog row is deleted without the cascade to comments and likes
delete_blog_NoCascade(tok, blog_id) ==
    LET a == get_current_user(tok, users, now)
        st == IF a.status # 200 THEN a.status
              ELSE IF blog_id \notin DOMAIN blogs THEN 404
              ELSE IF ~MayModify(blogs[blog_id], a.user, users) THEN 403
              ELSE 200
    IN  /\ last' = Resp("delete_blog", st, tok, a.user, blog_id)
        /\ blogs' = IF st = 200 THEN Drop(blogs, blog_id) ELSE blogs
        /\ UNCHANGED <<users, tokens, now, categories, tags, nextBlogId, likes, nextLikeId,
                       comments, nextCommentId, reqs>>

\* db.delete(blog): the ORM cascades to the blog's comments and likes
delete_blog(tok, blog_id) ==
    LET a == get_current_user(tok, users, now)
        st == IF a.status # 200 THEN a.status
              ELSE IF blog_id \notin DOMAIN blogs THEN 404
              ELSE IF ~MayModify(blogs[blog_id], a.user, users) THEN 403
              ELSE 200
    IN  /\ last' = Resp("delete_blog", st, tok, a.user, blog_id)
        /\ IF st = 200
           THEN /\ blogs' = Drop(blogs, blog_id)
                /\ likes' = {l \in likes : l.blog_id # blog_id}
                /\ comments' = {c \in comments : c.blog_id # blog_id}
           ELSE UNCHANGED <<blogs, likes, comments>>
        /\ UNCHANGED <<users, tokens, now, categories, tags, nextBlogId, nextLikeId,
                       nextCommentId, reqs>>

\* user_routes.py: the query only finds a blog of the caller
delete_my_blog(tok, blog_id) ==
    LET a == get_current_user(tok, users, now)
        st == IF a.status # 200 THEN a.status
              ELSE IF blog_id \notin DOMAIN blogs THEN 404
              ELSE IF blogs[blog_id].user_id # a.user THEN 404
              ELSE 200
    IN  /\ last' = Resp("delete_my_blog", st, tok, a.user, blog_id)
        /\ IF st = 200
           THEN /\ blogs' = Drop(blogs, blog_id)
                /\ likes' = {l \in likes : l.blog_id # blog_id}
                /\ comments' = {c \in comments : c.blog_id # blog_id}
           ELSE UNCHANGED <<blogs, likes, comments>>
        /\ UNCHANGED <<users, tokens, now, categories, tags, nextBlogId, nextLikeId,
                       nextCommentId, reqs>>

\* the rows the existing-like query matches; .first() returns one of them
ExistingLikes(ls, blog_id, user_id) ==
    {l \in ls : l.blog_id = blog_id /\ l.user_id = user_id}

\* mutant: the toggle of an existing like leaves the row in place
ToggledLikes_KeepsRow(ls, existing, blog_id, user_id, id) ==
    IF existing # None THEN ls
    ELSE ls \cup {[id |-> id, blog_id |-> blog_id, user_id |-> user_id]}

\* the write of the toggle: delete the row that was read, or insert a new one
ToggledLikes(ls, existing, blog_id, user_id, id) ==
    IF existing # None THEN {l \in ls : l.id # existing}
    ELSE ls \cup {[id |-> id, blog_id |-> blog_id, user_id |-> user_id]}

toggle_blog_like(tok, blog_id) ==
    LET a == get_current_user(tok, users, now)
        st == IF a.status # 200 THEN a.status
              ELSE IF blog_id \notin DOMAIN blogs THEN 404
              ELSE 200
        found == ExistingLikes(likes, blog_id, a.user)
    IN  /\ last' = [Resp("toggle_blog_like", st, tok, a.user, blog_id) EXCEPT
                       !.message = IF st # 200 THEN ""
                                   ELSE IF found # {} THEN "Like removed" ELSE "Blog liked"]
        /\ IF st # 200 THEN UNCHANGED <<likes, nextLikeId>>
           ELSE IF found # {}
           THEN /\ \E l \in found :
                      likes' = ToggledLikes(likes, l.id, blog_id, a.user, nextLikeId)
                /\ UNCHANGED nextLikeId
           ELSE /\ nextLikeId <= MaxLikes
                /\ likes' = ToggledLikes(likes, None, blog_id, a.user, nextLikeId)
                /\ nextLikeId' = nextLikeId + 1
        /\ UNCHANGED <<users, tokens, now, categories, tags, blogs, nextBlogId,
                       comments, nextCommentId, reqs>>

\* mutant: the tags table has no unique index on name
TagNameTaken_NoIndex(ts, name) == FALSE

\* Tag.name is unique: an INSERT of a name some committed row holds fails
TagNameTaken(ts, name) == name \in Range(ts)

\* create_blog or update_blog with tag_names served by worker w while other
\* workers serve theirs, up to the start of the tag loop: the dependency, the
\* blog query and permission check of an update, the flush of a new blog
tags_begin(w, op, tok, blog_id, d) ==
    LET a == get_current_user(tok, users, now)
        creating == {v \in DOMAIN reqs : reqs[v].pc # "idle" /\ reqs[v].op = "create_blog"}
        st == IF a.status # 200 THEN a.status
              ELSE IF op = "create_blog" THEN 200
              ELSE IF blog_id \notin DOMAIN blogs THEN 404
              ELSE IF ~MayModify(blogs[blog_id], a.user, users) THEN 403
              ELSE 200
    IN  /\ reqs[w].pc = "idle"
        /\ op = "create_blog" => nextBlogId + Cardinality(creating) <= MaxBlogs
        /\ IF st # 200
           THEN /\ last' = [Resp(op, st, tok, a.user, blog_id) EXCEPT !.body = {d}]
                /\ UNCHANGED reqs
           ELSE /\ reqs' = [reqs EXCEPT ![w] =
                              [pc |-> "loop", op |-> op, tok |-> tok, user |-> a.user,
                               blog_id |-> blog_id, d |-> d, todo |-> d.tag_names,
                               held |-> IF op = "create_blog" THEN {} ELSE blogs[blog_id].tags,
                               name |-> "", pending |-> {}, appended |-> <<>>]]
                /\ UNCHANGED last
        /\ UNCHANGED <<users, tokens, now, categories, tags, blogs, nextBlogId,
                       likes, nextLikeId, comments, nextCommentId>>

\* one turn of the loop up to the tag query: the committed rows and the
\* rows this transaction has flushed are visible to it
tag_query(w) ==
    LET r == reqs[w]
        n == Normalize(Head(r.todo))
    IN  /\ r.pc = "loop" /\ r.todo # <<>>
        /\ reqs' = [reqs EXCEPT ![w] =
                       IF n = "" THEN [r EXCEPT !.todo = Tail(@)]
                       ELSE IF n \in Range(tags) \cup r.pending
                       THEN [r EXCEPT !.todo = Tail(@), !.appended = Append(@, n)]
                       ELSE [r EXCEPT !.pc = "insert", !.name = n]]
        /\ UNCHANGED <<users, tokens, now, categories, tags, blogs, nextBlogId,
                       likes, nextLikeId, comments, nextCommentId, last>>

\* db.add(tag); db.flush(): the INSERT waits while another transaction holds
\* an uncommitted row of that name, and fails on a committed one
tag_insert(w) ==
    LET r == reqs[w]
    IN  /\ r.pc = "insert"
        /\ \A v \in DOMAIN reqs \ {w} :
              IF reqs[v].pc = "idle" THEN TRUE ELSE r.name \notin reqs[v].pending
        /\ IF TagNameTaken(tags, r.name)
           THEN /\ reqs' = [reqs EXCEPT ![w] = Idle]
                /\ last' = [Resp(r.op, 500, r.tok, r.user, r.blog_id) EXCEPT !.body = {r.d}]
           ELSE /\ reqs' = [reqs EXCEPT ![w] =
                              [r EXCEPT !.pc = "loop", !.todo = Tail(@),
                                        !.pending = @ \cup {r.name},
                                        !.appended = Append(@, r.name)]]
                /\ UNCHANGED last
        /\ UNCHANGED <<users, tokens, now, categories, tags, blogs, nextBlogId,
                       likes, nextLikeId, comments, nextCommentId>>

\* the names of a sequence that are in a set, once each, in order
RECURSIVE Created(_, _)
Created(appended, pending) ==
    IF appended = <<>> THEN <<>>
    ELSE LET n == Head(appended)
         IN  IF n \in pending
             THEN <<n>> \o Created(Tail(appended), pending \ {n})
             ELSE Created(Tail(appended), pending)

\* db.commit() after the loop: the flushed tags become rows of the table;
\* the blog_tags rows written are the appended tags the blog did not hold
\* (INSERT) and the held tags no longer appended (DELETE), and both fail on
\* rows another transaction has written or removed meanwhile
tags_commit(w) ==
    LET r == reqs[w]
        inserts == Range(r.appended) \ r.held
        deletes == r.held \ Range(r.appended)
        stored == IF r.op = "create_blog" THEN {} ELSE blogs[r.blog_id].tags
        ok == /\ TagsCommit(r.held, r.appended)
              /\ inserts \cap stored = {}
              /\ deletes \subseteq stored
        id == IF r.op = "create_blog" THEN nextBlogId ELSE r.blog_id
        row == [user_id |-> r.user, title |-> r.d.title, body |-> r.d.body,
                excerpt |-> Excerpt(r.d), category_id |-> r.d.category_id,
                is_published |-> r.d.is_published, is_featured |-> r.d.is_featured,
                view_count |-> 0, created_at |-> now,
                published_at |-> IF r.d.is_published THEN now ELSE None,
                tags |-> Range(r.appended)]
    IN  /\ r.pc = "loop" /\ r.todo = <<>>
        /\ reqs' = [reqs EXCEPT ![w] = Idle]
        /\ last' = [Resp(r.op, IF ~ok THEN 500 ELSE IF r.op = "create_blog" THEN 201 ELSE 200,
                         r.tok, r.user, IF ok THEN id ELSE r.blog_id)
                       EXCEPT !.body = {r.d}]
        /\ IF ok
           THEN /\ tags' = tags \o Created(r.appended, r.pending)
                /\ blogs' = IF r.op = "create_blog" THEN Put(blogs, id, row)
                            ELSE [blogs EXCEPT ![id].tags = (@ \ deletes) \cup inserts]
                /\ nextBlogId' = IF r.op = "create_blog" THEN nextBlogId + 1 ELSE nextBlogId
           ELSE UNCHANGED <<tags, blogs, nextBlogId>>
        /\ UNCHANGED <<users, tokens, now, categories, likes, nextLikeId,
                       comments, nextCommentId>>

\* toggle_blog_like served by worker w while other workers serve theirs, up
\* to its reads: the dependency, the blog query, the existing-like query
toggle_query(w, tok, blog_id) ==
    LET a == get_current_user(tok, users, now)
        st == IF a.status # 200 THEN a.status
              ELSE IF blog_id \notin DOMAIN blogs THEN 404
              ELSE 200
        found == ExistingLikes(likes, blog_id, a.user)
        inserting == {v \in DOMAIN reqs : reqs[v].pc = "commit" /\ reqs[v].existing = None}
    IN  /\ reqs[w].pc = "idle"
        /\ IF st # 200
           THEN /\ last' = Resp("toggle_blog_like", st, tok, a.user, blog_id)
                /\ UNCHANGED reqs
           ELSE /\ \E existing \in IF found = {} THEN {None} ELSE {l.id : l \in found} :
                      /\ existing = None => nextLikeId + Cardinality(inserting) <= MaxLikes
                      /\ reqs' = [reqs EXCEPT ![w] = [pc |-> "commit", tok |-> tok,
                                                      user |-> a.user, blog_id |-> blog_id,
                                                      existing |-> existing]]
                /\ UNCHANGED last
        /\ UNCHANGED <<users, tokens, now, categories, tags, blogs, nextBlogId,
                       likes, nextLikeId, comments, nextCommentId>>

\* ... and its write: db.delete or db.add of what the read decided, db.commit
toggle_commit(w) ==
    LET r == reqs[w]
    IN  /\ r.pc = "commit"
        /\ likes' = ToggledLikes(likes, r.existing, r.blog_id, r.user, nextLikeId)
        /\ nextLikeId' = IF r.existing = None THEN nextLikeId + 1 ELSE nextLikeId
        /\ last' = [Resp("toggle_blog_like", 200, r.tok, r.user, r.blog_id) EXCEPT
                       !.message = IF r.existing # None THEN "Like removed" ELSE "Blog liked"]
        /\ reqs' = [reqs EXCEPT ![w] = Idle]
        /\ UNCHANGED <<users, tokens, now, categories, tags, blogs, nextBlogId,
                       comments, nextCommentId>>

\* what the database does with a parent_id that is no comment's id: it
\* enforces comments.parent_id -> comments.id, or (SQLite without the
\* foreign_keys pragma) it stores the row
ForeignKeyChecks(parent_id) ==
    IF parent_id = None \/ \E c \in comments : c.id = parent_id THEN {TRUE} ELSE BOOLEAN

\* "if comment_data.parent_id:" skips the parent query for None and for 0
create_comment(tok, blog_id, parent_id) ==
    \E enforced \in ForeignKeyChecks(parent_id) :
    LET a == get_current_user(tok, users, now)
        st == IF a.status # 200 THEN a.status
              ELSE IF blog_id \notin DOMAIN blogs THEN 404
              ELSE IF parent_id \notin {None, 0}
                      /\ ~\E c \in comments : c.id = parent_id /\ c.blog_id = blog_id
                      THEN 400
              ELSE IF enforced /\ parent_id # None
                      /\ ~\E c \in comments : c.id = parent_id THEN 500
              ELSE 201
    IN  /\ nextCommentId <= MaxComments
        /\ last' = [Resp("create_comment", st, tok, a.user, blog_id)
                       EXCEPT !.body = {[parent_id |-> parent_id]}]
        /\ IF st = 201
           THEN /\ comments' = comments \cup {[id |-> nextCommentId, blog_id |-> blog_id,
                                               user_id |-> a.user, parent_id |-> parent_id]}
                /\ nextCommentId' = nextCommentId + 1
           ELSE UNCHANGED <<comments, nextCommentId>>
        /\ UNCHANGED <<users, tokens, now, categories, tags, blogs, nextBlogId,
                       likes, nextLikeId, reqs>>

\* the clock moves between requests
Tick(minutes) ==
    /\ now + minutes <= MaxTime
    /\ now' = now + minutes
    /\ UNCHANGED <<users, tokens, categories, tags, blogs, nextBlogId, likes,
                   nextLikeId, comments, nextCommentId, reqs, last>>

(* ------------------------------------------------- the store at start-up *)
\* an administrator exists only by provisioning: no route sets is_admin
SeedUsers ==
    (1 :> UserRow("Ann", "a@x.com", "Passw0rd", TRUE, TRUE)) @@
    (2 :> UserRow("Bob", "b@x.com", "Secr3t99", TRUE, FALSE))

NoResp ==
    [seq |-> 0, op |-> "none", status |-> 0, tok |-> NoToken, caller |-> None,
     target |-> None, body |-> {}, message |-> "", is_liked |-> FALSE, total |-> 0, pages |-> 0,
     items |-> <<>>]

\* the same store after a second user registered and all three logged in
UsersABC == SeedUsers @@ (3 :> UserRow("Cy", "c@x.com", "Passw0rd", TRUE, FALSE))

InitLoggedIn ==
    /\ users = UsersABC
    /\ tokens = [i \in 1..MaxUsers |->
                   IF i \in DOMAIN UsersABC
                   THEN create_access_token(UsersABC[i].email, 1) ELSE NoToken]
    /\ now = 1
    /\ categories = {1}
    /\ tags = <<>>
    /\ blogs = <<>>
    /\ nextBlogId = 1
    /\ likes = {}
    /\ nextLikeId = 1
    /\ comments = {}
    /\ nextCommentId = 1
    /\ reqs = <<>>
    /\ last = NoResp

InitStore ==
    /\ users = SeedUsers
    /\ tokens = [i \in 1..MaxUsers |-> NoToken]
    /\ now = 1
    /\ categories = {1}
    /\ tags = <<>>
    /\ blogs = <<>>
    /\ nextBlogId = 1
    /\ likes = {}
    /\ nextLikeId = 1
    /\ comments = {}
    /\ nextCommentId = 1
    /\ reqs = <<>>
    /\ last = NoResp

(* ---------------------------------------------- SpecAuth: the auth gate *)
UserUpdate(keys, name, email, active) ==
    [keys |-> keys, name |-> name, email |-> email, is_active |-> active]

EmailUpdates == {UserUpdate({"email"}, "Bob", e, TRUE) : e \in Emails}
StatusUpdates == {UserUpdate({"is_active"}, "Bob", "a@x.com", b) : b \in BOOLEAN}
UserIdInputs == DOMAIN users \cup {Cardinality(DOMAIN users) + 1}

InitAuth == InitStore

NextAuth ==
    \/ \E e \in Emails, p \in Passwords : login_user(e, p)
    \/ \E tok \in Presented : get_current_user_info(tok)
    \/ \E tok \in Held, id \in UserIdInputs : toggle_user_status(tok, id)
    \/ \E tok \in Held, d \in EmailUpdates : update_my_profile(tok, d)
    \/ Tick(45)

SpecAuth == InitAuth /\ [][NextAuth]_vars

\* C4: get_current_user answers 200 with the user whose email is the token's
\* subject exactly when the token verifies (signed, unexpired, with a subject)
\* and that user exists and is active; in every other case it answers 401
\* and resolves nobody.
C4_AuthGate ==
    [][(last'.op = "get_current_user_info" /\ last'.seq # last.seq) =>
          LET tok == last'.tok
              good == /\ tok.present /\ tok.signed /\ tok.exp >= now
                      /\ tok.sub # NoSub
                      /\ \E i \in DOMAIN users :
                            users[i].email = tok.sub /\ users[i].is_active
          IN  IF good
              THEN /\ last'.status = 200
                   /\ last'.caller \in DOMAIN users
                   /\ users[last'.caller].email = tok.sub
                   /\ users[last'.caller].is_active
              ELSE last'.status = 401 /\ last'.caller = None]_vars

\* C4 witness: an expired-free, signed token of an active user was resolved
\* after another token had been refused for its deactivated account
C4_Witness ==
    /\ last.op = "get_current_user_info" /\ last.status = 200
    /\ last.caller \in DOMAIN users
    /\ \E i \in DOMAIN users : ~users[i].is_active

(* ------------------------- SpecRevoke: deactivation against live tokens *)
InitRevoke == InitStore

NextRevoke ==
    \/ \E e \in Emails, p \in Passwords : login_user(e, p)
    \/ \E tok \in Held : get_current_user_info(tok)
    \/ \E tok \in Held, id \in UserIdInputs : toggle_user_status(tok, id)
    \/ \E tok \in Held, d \in EmailUpdates : update_my_profile(tok, d)
    \/ \E tok \in Held, id \in UserIdInputs, d \in EmailUpdates \cup StatusUpdates :
          admin_update_user(tok, id, d)

SpecRevoke == InitRevoke /\ [][NextRevoke]_vars

\* C5: a request that presents the token handed to user i at login, while
\* user i is deactivated, is answered 401.
C5_DeactivatedTokenRejected ==
    [][(/\ last'.op = "get_current_user_info" /\ last'.seq # last.seq
        /\ last'.tok.present
        /\ \E i \in DOMAIN users : tokens[i] = last'.tok /\ ~users[i].is_active)
       => last'.status = 401]_vars

(* ------------------------------- SpecOwn: who may change or delete a blog *)
BlogIdInputs == 1..MaxBlogs

Draft == BlogCreate("Hello", None, FALSE, FALSE, <<>>)
Tagged(names) == BlogCreate("Hello", None, TRUE, FALSE, names)
Retitle == BlogUpdate({"title"}, {}, "World", None, FALSE, FALSE, <<>>)
BadCategory == BlogUpdate({"category_id"}, {}, "Hello", 2, FALSE, FALSE, <<>>)
NullPublished == BlogUpdate({"is_published"}, {"is_published"}, "Hello", None, FALSE, FALSE, <<>>)

InitOwn == InitLoggedIn

NextOwn ==
    \/ \E tok \in Held : create_blog(tok, Draft)
    \/ create_blog(tokens[2], Tagged(<<"x">>))
    \/ \E tok \in Held, id \in BlogIdInputs : update_blog(tok, id, Retitle)
    \/ \E d \in {BadCategory, NullPublished} : update_blog(tokens[2], 1, d)
    \/ \E tok \in Held, id \in BlogIdInputs : delete_blog(tok, id)

SpecOwn == InitOwn /\ [][NextOwn]_vars

ModifyStep ==
    /\ last'.op \in {"update_blog", "delete_blog"} /\ last'.seq # last.seq
    /\ last'.caller # None

BodyStatus(row, d) ==
    IF "category_id" \in d.keys /\ "category_id" \notin d.nulls
       /\ d.category_id \notin categories THEN 400
    ELSE IF d.nulls \cap {"title", "body", "is_published", "is_featured", "tag_names"} # {} THEN 500
    ELSE IF "tag_names" \in d.keys /\ ~TagsCommit(row.tags, Appended(d.tag_names)) THEN 500
    ELSE 200

AllBlogs == BlogFilter(None, {}, {TRUE}, BOOLEAN, None, "")
ByTags(names) == BlogFilter(None, names, {TRUE}, BOOLEAN, None, "")

InitList == InitLoggedIn

NextList ==
    \/ \E names \in {<<>>, <<"go">>, <<"go", "rust">>} : create_blog(tokens[2], Tagged(names))
    \/ \E tok \in {tokens[2], NoToken}, f \in {AllBlogs, ByTags({"go"}), ByTags({"go", "rust"})},
          page \in 1..(MaxBlogs + 1), per_page \in 1..MaxPerPage :
          get_blogs(tok, f, page, per_page, "created_at", "desc")

SpecList == InitList /\ [][NextList]_vars

RECURSIVE SumLen(_, _, _)
SumLen(ordered, per_page, n) ==
    IF n = 0 THEN 0
    ELSE Len(PageItems(ordered, n, per_page)) + SumLen(ordered, per_page, n - 1)

\* C10: for a listing request, total is the number of distinct blogs that
\* match the filters, pages is ceil(total / per_page), and over pages
\* 1..pages the items add up to total, every matching blog on exactly one page.
C10_PaginationConsistent ==
    [][(last'.op = "get_blogs" /\ last'.seq # last.seq /\ last'.status = 200) =>
          \A q \in last'.body :
             LET matching == {b \in DOMAIN blogs :
                                 /\ Matches(blogs[b], q.f)
                                 /\ q.f.tag_names # {} => blogs[b].tags \cap q.f.tag_names # {}}
                 n == Cardinality(matching)
                 pagesOf == [p \in 1..last'.pages |-> PageItems(q.ordered, p, q.per_page)]
             IN  /\ last'.total = n
                 /\ last'.pages * q.per_page >= n
                 /\ (last'.pages - 1) * q.per_page < n \/ n = 0
                 /\ SumLen(q.ordered, q.per_page, last'.pages) = last'.total
                 /\ \A b \in matching :
                       Cardinality({p \in 1..last'.pages : b \in Range(pagesOf[p])}) = 1]_vars

(* ------------------------------- SpecLike: like toggles served in parallel *)
Workers == 1..MaxWorkers

InitLike ==
    /\ users = UsersABC
    /\ tokens = [i \in 1..MaxUsers |->
                   IF i \in DOMAIN UsersABC
                   THEN create_access_token(UsersABC[i].email, 1) ELSE NoToken]
    /\ now = 1
    /\ categories = {1}
    /\ tags = <<>>
    /\ blogs = <<>>
    /\ nextBlogId = 1
    /\ likes = {}
    /\ nextLikeId = 1
    /\ comments = {}
    /\ nextCommentId = 1
    /\ reqs = [w \in Workers |-> Idle]
    /\ last = NoResp

NextLike ==
    \/ create_blog(tokens[2], Draft)
    \/ \E w \in Workers, tok \in {tokens[2], tokens[3], NoToken}, blog_id \in BlogIdInputs :
          toggle_query(w, tok, blog_id)
    \/ \E w \in Workers : toggle_commit(w)

SpecLike == InitLike /\ [][NextLike]_vars

\* C1: however the toggles of one user on one blog overlap, the likes table
\* never holds more than one Like for a (blog, user) pair.
C1_AtMostOneLike ==
    \A b \in BlogIdInputs, u \in DOMAIN users : Cardinality(ExistingLikes(likes, b, u)) <= 1

(* ------------------- SpecView: one caller's requests, one after another *)
AnyBlog == BlogFilter(None, {}, BOOLEAN, BOOLEAN, None, "")

InitView == InitLoggedIn

Touch == BlogUpdate({"is_featured"}, {}, "Hello", None, FALSE, FALSE, <<>>)

NextView ==
    \/ \E d \in {Draft, Tagged(<<"x">>)} : create_blog(tokens[2], d)
    \/ \E tok \in {tokens[2], NoToken}, blog_id \in BlogIdInputs : get_blog(tok, blog_id)
    \/ \E blog_id \in BlogIdInputs : update_blog(tokens[2], blog_id, Touch)
    \/ toggle_blog_like(tokens[2], 1)
    \/ create_comment(tokens[2], 1, None)
    \/ get_blogs(tokens[2], AnyBlog, 1, MaxPerPage, "view_count", "desc")

SpecView == InitView /\ [][NextView]_vars

\* C6: get_blog of an existing blog with no token answers 200 with
\* is_liked = false and raises the blog's view_count by exactly one.
C6_AnonymousView ==
    [][(last'.op = "get_blog" /\ last'.seq # last.seq /\ last'.tok = NoToken
          /\ last'.target \in DOMAIN blogs) =>
             /\ last'.status = 200
             /\ ~last'.is_liked
             /\ blogs'[last'.target].view_count = blogs[last'.target].view_count + 1]_vars

\* C7: a blog's view_count never decreases; it changes only in a successful
\* get_blog of that blog, which adds one; a new blog starts at 0.
C7_ViewCountFrame ==
    [][/\ \A b \in DOMAIN blogs \cap DOMAIN blogs' :
            /\ blogs'[b].view_count >= blogs[b].view_count
            /\ blogs'[b].view_count # blogs[b].view_count =>
                  /\ last'.op = "get_blog" /\ last'.status = 200 /\ last'.target = b
                  /\ blogs'[b].view_count = blogs[b].view_count + 1
       /\ \A b \in DOMAIN blogs' \ DOMAIN blogs : blogs'[b].view_count = 0]_vars

(* ------------------------- SpecToggle: like toggles, one after another *)
InitToggle == InitLoggedIn

NextToggle ==
    \/ create_blog(tokens[2], Draft)
    \/ \E tok \in {tokens[2], tokens[3]}, blog_id \in BlogIdInputs :
          toggle_blog_like(tok, blog_id)
    \/ \E blog_id \in BlogIdInputs : delete_blog(tokens[2], blog_id)

SpecToggle == InitToggle /\ [][NextToggle]_vars

LikeCount(ls, blog_id) == Cardinality({l \in ls : l.blog_id = blog_id})

ToggleOk(r) == r.op = "toggle_blog_like" /\ r.status = 200

\* C2: a toggle that finds the caller's like absent leaves exactly one Like
\* of the caller on the blog and the blog's like count one higher; a toggle
\* that directly follows the same caller's toggle of the same blog undoes
\* it: the liked state and the like count are those from before the pair.
C2_ToggleFlip ==
    [][(ToggleOk(last') /\ last'.seq # last.seq) =>
          LET b == last'.target
              u == last'.caller
              before == ExistingLikes(likes, b, u)
              after == ExistingLikes(likes', b, u)
          IN  /\ before = {} =>
                    /\ Cardinality(after) = 1
                    /\ LikeCount(likes', b) = LikeCount(likes, b) + 1
              /\ (ToggleOk(last) /\ last.target = b /\ last.caller = u) =>
                    IF last.message = "Blog liked"
                    THEN after = {} /\ LikeCount(likes', b) = LikeCount(likes, b) - 1
                    ELSE after # {} /\ LikeCount(likes', b) = LikeCount(likes, b) + 1]_vars

\* a like was toggled on and then off again
C2_Witness ==
    /\ ToggleOk(last) /\ last.message = "Like removed"
    /\ ExistingLikes(likes, last.target, last.caller) = {}
    /\ nextLikeId > 1

(* ------------------------------------------ SpecPub: publishing a blog *)
Post(is_published) == BlogCreate("Hello", None, is_published, FALSE, <<>>)
SetPublished(is_published) ==
    BlogUpdate({"is_published"}, {}, "Hello", None, is_published, FALSE, <<>>)

InitPub == InitLoggedIn

NextPub ==
    \/ \E p \in BOOLEAN : create_blog(tokens[2], Post(p))
    \/ \E blog_id \in BlogIdInputs, d \in {SetPublished(TRUE), SetPublished(FALSE)} :
          update_blog(tokens[2], blog_id, d)
    \/ \E d \in {NullPublished, Retitle} : update_blog(tokens[2], 1, d)
    \/ now < 4 /\ Tick(1)

SpecPub == InitPub /\ [][NextPub]_vars

\* C8: every stored blog has published_at set exactly when is_published is true.
C8_PublishedAtIffPublished ==
    \A b \in DOMAIN blogs : (blogs[b].published_at # None) <=> blogs[b].is_published

\* a blog was published by an update, at a later time than its creation
C8_Witness ==
    \E b \in DOMAIN blogs :
        blogs[b].is_published /\ blogs[b].published_at > blogs[b].created_at

UpdateOk(r) == r.op = "update_blog" /\ r.status = 200

\* C9: a blog created unpublished has no published_at; an update with
\* is_published = true gives it one; any successful update that does not
\* send is_published = false leaves a set published_at at its value.
C9_PublishedAtStable ==
    [][/\ (last'.op = "create_blog" /\ last'.status = 201 /\ last'.seq # last.seq
             /\ ~blogs'[last'.target].is_published) =>
                blogs'[last'.target].published_at = None
       /\ (UpdateOk(last') /\ last'.seq # last.seq) =>
             \A d \in last'.body :
                LET b == last'.target
                    unpublishes == "is_published" \in d.keys /\ ~d.is_published
                IN  /\ ("is_published" \in d.keys /\ d.is_published) =>
                          blogs'[b].published_at # None
                    /\ (~unpublishes /\ blogs[b].published_at # None) =>
                          blogs'[b].published_at = blogs[b].published_at]_vars

\* a published blog took an update re-sending is_published = true at a
\* later time and kept its publication time
C9_Witness ==
    /\ UpdateOk(last) /\ last.body = {SetPublished(TRUE)}
    /\ blogs[last.target].published_at # None
    /\ blogs[last.target].published_at < now

(* ------------------------------- SpecTags: tag names on create and update *)
SetTags(names) == BlogUpdate({"tag_names"}, {}, "Hello", None, FALSE, FALSE, names)

TagLists == {<<>>, <<"rust">>, <<"Go", "  ">>, <<"Go", " go ", "Rust">>}

InitTags == InitLoggedIn

NextTags ==
    \/ \E names \in TagLists : create_blog(tokens[2], Tagged(names))
    \/ \E blog_id \in BlogIdInputs, names \in TagLists :
          update_blog(tokens[2], blog_id, SetTags(names))

SpecTags == InitTags /\ [][NextTags]_vars

\* the distinct non-empty values of the trimmed, lowercased names
NormalSet(names) == {Normalize(names[i]) : i \in DOMAIN names} \ {""}

\* C11: create_blog by an authenticated caller with any list of tag names
\* succeeds, and the new blog's tags are exactly the distinct non-empty
\* normalised names of the request.
C11_CreateTagsNormalised ==
    [][(last'.op = "create_blog" /\ last'.seq # last.seq /\ last'.status # 401) =>
          \A d \in last'.body :
             /\ last'.status = 201
             /\ blogs'[last'.target].tags = NormalSet(d.tag_names)]_vars

\* C20: update_blog by the owner with tag_names leaves the blog with exactly
\* the normalised non-empty names of the request, and every row of the tags
\* table is still there.
C20_UpdateReplacesTags ==
    [][(last'.op = "update_blog" /\ last'.seq # last.seq
          /\ last'.target \in DOMAIN blogs /\ last'.status \notin {401, 403}) =>
          \A d \in last'.body :
             "tag_names" \in d.keys =>
                /\ blogs'[last'.target].tags = NormalSet(d.tag_names)
                /\ Range(tags) \subseteq Range(tags')]_vars

(* ---------------------- SpecTagRace: tag get-or-create served in parallel *)
InitTagRace == InitLike

NextTagRace ==
    \/ \E w \in Workers, names \in {<<"Go">>, <<" go ", "Rust">>} :
          tags_begin(w, "create_blog", tokens[2], None, Tagged(names))
    \/ \E w \in Workers : tags_begin(w, "update_blog", tokens[2], 1, SetTags(<<"Go", "  ">>))
    \/ \E w \in Workers : tag_query(w)
    \/ \E w \in Workers : tag_insert(w)
    \/ \E w \in Workers : tags_commit(w)

SpecTagRace == InitTagRace /\ [][NextTagRace]_vars

\* C12: no two rows of the tags table have the same name, and every name
\* is non-empty and is its own trimmed, lowercased form.
C12_TagNamesUnique ==
    /\ \A i, j \in DOMAIN tags : tags[i] = tags[j] => i = j
    /\ \A i \in DOMAIN tags : tags[i] # "" /\ Normalize(tags[i]) = tags[i]

\* a request lost the race for a new tag name: its INSERT met the row
\* another request had committed since its own query
C12_Witness ==
    /\ last.status = 500
    /\ \E d \in last.body : Range(Appended(d.tag_names)) \cap Range(tags) # {}
    /\ \E d \in last.body : TagsCommit({}, Appended(d.tag_names))

(* ------------------- SpecEmail: email changes and registrations in parallel *)
InitEmail ==
    /\ users = SeedUsers
    /\ tokens = [i \in 1..MaxUsers |->
                   IF i \in DOMAIN SeedUsers
                   THEN create_access_token(SeedUsers[i].email, 1) ELSE NoToken]
    /\ now = 1
    /\ categories = {1}
    /\ tags = <<>>
    /\ blogs = <<>>
    /\ nextBlogId = 1
    /\ likes = {}
    /\ nextLikeId = 1
    /\ comments = {}
    /\ nextCommentId = 1
    /\ reqs = [w \in Workers |-> Idle]
    /\ last = NoResp

TakeEmail(e) == UserUpdate({"email"}, "Cy", e, TRUE)

NextEmail ==
    \/ \E w \in Workers, e \in {"b@x.com", "c@x.com"} :
          email_check(w, "register_user", NoToken, None, TakeEmail(e))
    \/ \E w \in Workers, tok \in {tokens[1], tokens[2]}, e \in {"b@x.com", "c@x.com"} :
          email_check(w, "update_my_profile", tok, None, TakeEmail(e))
    \/ \E w \in Workers, tok \in {tokens[1], tokens[2]}, id \in {2, MaxUsers + 1} :
          email_check(w, "admin_update_user", tok, id, TakeEmail("c@x.com"))
    \/ \E w \in Workers : email_commit(w)

SpecEmail == InitEmail /\ [][NextEmail]_vars

\* the emails of the users table are pairwise distinct
EmailsUnique ==
    \A i, j \in DOMAIN users : users[i].email = users[j].email => i = j

\* C13: no two users ever have the same email, and a registration or an
\* email change that asks for an email another user holds is answered with
\* an error and changes no user.
C13_EmailUniqueness ==
    /\ []EmailsUnique
    /\ [][(last'.seq # last.seq
             /\ last'.op \in {"register_user", "update_my_profile", "admin_update_user"}) =>
             \A d \in last'.body :
                LET id == IF last'.op = "register_user" THEN None ELSE last'.target
                    asks == last'.op = "register_user" \/ "email" \in d.keys
                IN  (asks /\ \E i \in DOMAIN users \ {id} : users[i].email = d.email) =>
                       last'.status >= 400 /\ users' = users]_vars

\* a request lost the race for an email: it passed the query and was
\* refused at its commit, after a registration had taken the email
C13_Witness ==
    /\ last.status = 500
    /\ Cardinality(DOMAIN users) = MaxUsers
    /\ \E d \in last.body : \E i \in DOMAIN users : users[i].email = d.email

(* --------------------------------------- SpecAdmin: the admin operations *)
Rename == UserUpdate({"name"}, "Cy", "c@x.com", TRUE)

InitAdmin == InitLoggedIn

NextAdmin ==
    \/ \E tok \in Held : get_all_users(tok)
    \/ \E tok \in Held, id \in UserIdInputs : toggle_user_status(tok, id)
    \/ \E tok \in Held, id \in UserIdInputs, d \in StatusUpdates \cup {Rename} :
          admin_update_user(tok, id, d)

SpecAdmin == InitAdmin /\ [][NextAdmin]_vars

\* C14: toggle_user_status by an admin on their own id answers 400 and
\* changes no user; on another existing user's id it answers 200 and flips
\* that user's is_active and nothing else.
C14_ToggleStatus ==
    [][(last'.op = "toggle_user_status" /\ last'.seq # last.seq
          /\ last'.caller \in DOMAIN users /\ last'.target \in DOMAIN users
          /\ users[last'.caller].is_admin) =>
             IF last'.target = last'.caller
             THEN last'.status = 400 /\ users' = users
             ELSE /\ last'.status = 200
                  /\ users' = [users EXCEPT ![last'.target].is_active = ~@]
                  /\ UNCHANGED <<tokens, now, categories, tags, blogs, nextBlogId, likes,
                                 nextLikeId, comments, nextCommentId, reqs>>]_vars

\* the admin was refused on their own id after having deactivated another user
C14_Witness ==
    /\ last.op = "toggle_user_status" /\ last.status = 400
    /\ last.target = last.caller
    /\ \E i \in DOMAIN users : ~users[i].is_active

AdminOps == {"get_all_users", "toggle_user_status", "admin_update_user"}

\* C15: an admin operation called by an authenticated active user who is
\* not an admin answers 403 and changes no user.
C15_AdminOnly ==
    [][(last'.op \in AdminOps /\ last'.seq # last.seq /\ last'.caller \in DOMAIN users
          /\ ~users[last'.caller].is_admin) =>
             last'.status = 403 /\ users' = users]_vars

\* a non-admin was refused the update of an existing user after the admin
\* had changed a record
C15_Witness ==
    /\ last.op = "admin_update_user" /\ last.status = 403
    /\ last.target \in DOMAIN users
    /\ users # UsersABC

(* ------------------------------------------ SpecToken: the token service *)
Deltas == {None, 1, 2}

\* AuthService.create_access_token for a client, who keeps the token; reqs
\* holds the arguments of the call
IssueToken(sub, expires_delta) ==
    /\ tokens' = [tokens EXCEPT ![1] = create_access_token_in(sub, now, expires_delta)]
    /\ reqs' = <<[sub |-> sub, expires_delta |-> expires_delta, issued_at |-> now]>>
    /\ last' = Resp("create_access_token", 200, tokens'[1], None, None)
    /\ UNCHANGED <<users, now, categories, tags, blogs, nextBlogId, likes,
                   nextLikeId, comments, nextCommentId>>

\* AuthService.verify_token on a presented token: the email, or the
\* credentials exception
VerifyToken(tok) ==
    LET v == verify_token(tok, now)
    IN  /\ last' = [Resp("verify_token", IF v.ok THEN 200 ELSE 401, tok, None, None)
                       EXCEPT !.message = v.email]
        /\ UNCHANGED <<users, tokens, now, categories, tags, blogs, nextBlogId,
                       likes, nextLikeId, comments, nextCommentId, reqs>>

\* the client's token with a signature made without the process secret
Resigned(tok) == [tok EXCEPT !.signed = FALSE]

InitToken == InitStore

NextToken ==
    \/ \E sub \in {"a@x.com", "b@x.com"}, delta \in Deltas : IssueToken(sub, delta)
    \/ \E tok \in {tokens[1], Resigned(tokens[1]), ForgedToken} : VerifyToken(tok)
    \/ now < 4 /\ Tick(1)
    \/ Tick(ACCESS_TOKEN_EXPIRE_MINUTES)

SpecToken == InitToken /\ [][NextToken]_vars

\* C16: the token made by create_access_token for a subject and a lifetime
\* verifies to that subject at every time before issue + lifetime and is
\* refused at every time after it; a token not signed with the process
\* secret is refused at every time.
C16_TokenLifetime ==
    [][(last'.op = "verify_token" /\ last'.seq # last.seq) =>
          LET tok == last'.tok
          IN  IF reqs # <<>> /\ tok = tokens[1]
              THEN LET c == reqs[1]
                       ttl == IF c.expires_delta = None THEN ACCESS_TOKEN_EXPIRE_MINUTES
                              ELSE c.expires_delta
                   IN  /\ now < c.issued_at + ttl =>
                             last'.status = 200 /\ last'.message = c.sub
                       /\ now > c.issued_at + ttl => last'.status = 401
              ELSE last'.status = 401]_vars

\* a genuine token was refused after its lifetime
C16_Witness ==
    /\ last.op = "verify_token" /\ last.status = 401
    /\ last.tok = tokens[1] /\ last.tok.signed
    /\ reqs # <<>>

(* ------------------- SpecAtomic: what a failed mutation leaves committed *)
InitAtomic ==
    /\ users = SeedUsers
    /\ tokens = [i \in 1..MaxUsers |->
                   IF i \in DOMAIN SeedUsers
                   THEN create_access_token(SeedUsers[i].email, 1) ELSE NoToken]
    /\ now = 1
    /\ categories = {1}
    /\ tags = <<>>
    /\ blogs = <<>>
    /\ nextBlogId = 1
    /\ likes = {}
    /\ nextLikeId = 1
    /\ comments = {}
    /\ nextCommentId = 1
    /\ reqs = <<>>
    /\ last = NoResp

AtomicTagLists == {<<"Go">>, <<"x">>, <<"Go", " go ">>}

NextAtomic ==
    \/ \E names \in AtomicTagLists : create_blog(tokens[2], Tagged(names))
    \/ \E names \in AtomicTagLists : update_blog(tokens[2], 1, SetTags(names))
    \/ \E blog_id \in BlogIdInputs : delete_blog(tokens[2], blog_id)
    \/ toggle_blog_like(tokens[1], 1)
    \/ \E parent_id \in {None, 1} : create_comment(tokens[1], 1, parent_id)
    \/ \E e \in {"a@x.com", "c@x.com"} : register_user("Cy", e, "Passw0rd")
    \/ \E e \in {"a@x.com", "b@x.com"} :
          update_my_profile(tokens[2], UserUpdate({"email"}, "Bob", e, TRUE))

SpecAtomic == InitAtomic /\ [][NextAtomic]_vars

MutationOps ==
    {"create_blog", "update_blog", "delete_blog", "toggle_blog_like", "create_comment",
     "register_user", "update_my_profile", "admin_update_user"}

\* C17: a mutation that is answered with an error leaves every table as it
\* was before the request.
C17_AllOrNothing ==
    [][(last'.seq # last.seq /\ last'.op \in MutationOps /\ last'.status >= 400) =>
          UNCHANGED <<users, categories, tags, blogs, likes, comments>>]_vars


(* ------------------------------------ SpecLogin: the two login endpoints *)
LoginNames == {"a@x.com", "b@x.com", "b@X.com", "bob", "z@x.com"}

\* a client fills in the credentials that it then posts to either endpoint
Submit(email, password) ==
    /\ reqs' = <<[email |-> email, password |-> password]>>
    /\ UNCHANGED <<users, tokens, now, categories, tags, blogs, nextBlogId, likes,
                   nextLikeId, comments, nextCommentId, last>>

InitLogin == InitStore

NextLogin ==
    \/ \E e \in LoginNames, p \in Passwords : Submit(e, p)
    \/ reqs # <<>> /\ login_user(reqs[1].email, reqs[1].password)
    \/ reqs # <<>> /\ login_with_email(reqs[1].email, reqs[1].password)
    \/ toggle_user_status(tokens[1], 2)
    \/ now < 3 /\ Tick(1)

SpecLogin == InitLogin /\ [][NextLogin]_vars

LoginStep == last'.op \in {"login_user", "login_with_email"} /\ last'.seq # last.seq

\* the credentials name an active user whose stored hash the password matches
Accepted(email, password) ==
    \E u \in DOMAIN users :
       /\ users[u].email = email
       /\ verify_password(password, users[u].password)
       /\ users[u].is_active

\* C18: either endpoint issues a token whose subject is the posted email
\* exactly when the email is a user's, the password verifies and the user is
\* active; otherwise it answers 401 and issues no token.
C18_LoginsAgree ==
    [][LoginStep =>
          IF Accepted(reqs[1].email, reqs[1].password)
          THEN /\ last'.status = 200
               /\ verify_token(last'.tok, now) = [ok |-> TRUE, email |-> reqs[1].email]
          ELSE last'.status = 401 /\ last'.tok = NoToken /\ tokens' = tokens]_vars

(* --------------------------- SpecFrame: what update_blog leaves in place *)
Article == [Tagged(<<"go">>) EXCEPT !.category_id = 1, !.body = "long body"]

\* a body that sets the fields named by keys; every field of the record
\* differs from what Article stores
Patch(keys, is_published) ==
    [BlogUpdate(keys, keys \cap {"category_id"}, "World", None, is_published, TRUE,
                <<"rust">>)
       EXCEPT !.body = "short body", !.excerpt = "teaser"]

FrameKeys ==
    {{}, {"title", "body"}, {"excerpt", "category_id"}, {"is_published"},
     {"is_featured", "tag_names"}}

FramePatches == {Patch(keys, FALSE) : keys \in FrameKeys} \cup {Patch({"is_published"}, TRUE)}

InitFrame == InitLoggedIn

NextFrame ==
    \/ create_blog(tokens[2], Article)
    \/ get_blog(tokens[3], 1)
    \/ \E d \in FramePatches : update_blog(tokens[2], 1, d)
    \/ update_blog(tokens[1], 1, Patch({"title", "body"}, FALSE))
    \/ now < 3 /\ Tick(1)

SpecFrame == InitFrame /\ [][NextFrame]_vars

BlogFields == {"title", "body", "excerpt", "category_id", "is_published", "is_featured"}

\* C19: update_blog leaves every field that the body does not supply as it
\* was, and the owner, the view_count and every other blog in any case;
\* published_at changes only when is_published is supplied, and then by the
\* publication rule.
C19_UpdateFrame ==
    [][(last'.op = "update_blog" /\ last'.seq # last.seq /\ last'.target \in DOMAIN blogs) =>
          LET b == last'.target
          IN  /\ DOMAIN blogs' = DOMAIN blogs
              /\ \A c \in DOMAIN blogs \ {b} : blogs'[c] = blogs[c]
              /\ blogs'[b].user_id = blogs[b].user_id
              /\ blogs'[b].view_count = blogs[b].view_count
              /\ \A d \in last'.body :
                    /\ \A f \in BlogFields \ d.keys : blogs'[b][f] = blogs[b][f]
                    /\ "tag_names" \notin d.keys => blogs'[b].tags = blogs[b].tags
                    /\ "is_published" \notin d.keys =>
                          blogs'[b].published_at = blogs[b].published_at
                    /\ ("is_published" \in d.keys /\ last'.status = 200) =>
                          blogs'[b].published_at =
                             IF ~d.is_published THEN None
                             ELSE IF blogs[b].published_at = None THEN now
                             ELSE blogs[b].published_at]_vars

\* C19 witness: a viewed blog next to another one has just been given a new
\* title and body by the administrator; it keeps the excerpt cut from its
\* first body, its tags and the publication time of an earlier minute
C19_Witness ==
    /\ last.op = "update_blog" /\ last.status = 200 /\ last.caller = 1
    /\ \E d \in last.body : d.keys = {"title", "body"}
    /\ Cardinality(DOMAIN blogs) = 2
    /\ LET row == blogs[last.target]
       IN  /\ row.body = "short body" /\ row.excerpt = "long body[:297]..."
           /\ row.view_count > 0 /\ row.user_id = 2
           /\ row.tags = {"go"}
           /\ row.published_at # None /\ row.published_at < now

(* ------------------------------------- SpecComment: comments and replies *)
InitComment == InitLoggedIn

NextComment ==
    \/ create_blog(tokens[2], Draft)
    \/ \E tok \in {tokens[2], tokens[3]}, blog_id \in BlogIdInputs, parent_id \in {None, 0, 1, 2} :
          create_comment(tok, blog_id, parent_id)
    \/ delete_blog(tokens[2], 1)

SpecComment == InitComment /\ [][NextComment]_vars

\* every reply has its parent, on the same blog
ParentsExist ==
    \A c \in comments :
       c.parent_id # None =>
          \E p \in comments : p.id = c.parent_id /\ p.blog_id = c.blog_id

\* C21: create_comment answers 404 on an unknown blog and 400 when parent_id
\* names no comment of that blog, creating nothing; so every stored reply has
\* its parent on the same blog.
C21_CommentParents ==
    /\ []ParentsExist
    /\ [][(last'.op = "create_comment" /\ last'.seq # last.seq /\ last'.caller # None) =>
             \A r \in last'.body :
                /\ last'.target \notin DOMAIN blogs =>
                      last'.status = 404 /\ comments' = comments
                /\ (/\ last'.target \in DOMAIN blogs
                    /\ r.parent_id # None
                    /\ ~\E p \in comments : p.id = r.parent_id /\ p.blog_id = last'.target) =>
                      last'.status = 400 /\ comments' = comments]_vars

(* ------------------------------- SpecDelete: deleting a blog and its rows *)
InitDelete == InitLoggedIn

NextDelete ==
    \/ create_blog(tokens[2], Draft)
    \/ get_blog(tokens[3], 2)
    \/ \E blog_id \in BlogIdInputs : toggle_blog_like(tokens[3], blog_id)
    \/ \E parent_id \in {None, 1} : create_comment(tokens[3], 1, parent_id)
    \/ create_comment(tokens[2], 2, None)
    \/ \E tok \in {tokens[1], tokens[3]} : delete_blog(tok, 1)
    \/ \E tok \in {tokens[2], tokens[3]} : delete_my_blog(tok, 1)

SpecDelete == InitDelete /\ [][NextDelete]_vars

\* every comment and every like is on a stored blog
RefsExist ==
    /\ \A c \in comments : c.blog_id \in DOMAIN blogs
    /\ \A l \in likes : l.blog_id \in DOMAIN blogs

\* C22: a successful delete_blog or delete_my_blog removes the blog with all
\* its comments and likes and leaves the other blogs, their comments and
\* their likes as they were; every comment and like is on a stored blog.
C22_DeleteCascade ==
    /\ []RefsExist
    /\ [][(last'.op \in {"delete_blog", "delete_my_blog"} /\ last'.seq # last.seq
             /\ last'.status = 200) =>
             LET b == last'.target
             IN  /\ b \in DOMAIN blogs /\ b \notin DOMAIN blogs'
                 /\ \A c \in DOMAIN blogs \ {b} : c \in DOMAIN blogs' /\ blogs'[c] = blogs[c]
                 /\ comments' = {c \in comments : c.blog_id # b}
                 /\ likes' = {l \in likes : l.blog_id # b}]_vars

\* C22 witness: a blog that had a comment, a reply and a like has been
\* deleted, while the other blog keeps its view, its comment or its like
C22_Witness ==
    /\ last.op \in {"delete_blog", "delete_my_blog"} /\ last.status = 200
    /\ nextCommentId > 2 /\ nextLikeId > 1
    /\ \E b \in DOMAIN blogs :
          /\ blogs[b].view_count > 0
          /\ \E l \in likes : l.blog_id = b
    /\ Cardinality(comments) < nextCommentId - 1

(* ------------------------------ SpecOptional: the optional resolution mode *)
InitOptional == InitStore

NextOptional ==
    \/ \E e \in {"a@x.com", "b@x.com"}, p \in Passwords : login_user(e, p)
    \/ \E tok \in Presented : optional_user(tok)
    \/ toggle_user_status(tokens[1], 2)
    \/ update_my_profile(tokens[2], UserUpdate({"email"}, "Bob", "c@x.com", TRUE))
    \/ Tick(45)

SpecOptional == InitOptional /\ [][NextOptional]_vars

\* C23: get_optional_current_user never answers with an error; it resolves
\* the user whose email is the token's subject when the token verifies and
\* that user exists and is active, and resolves nobody (anonymous) in every
\* other case, a request without a token included.
C23_OptionalNeverFails ==
    [][(last'.op = "get_optional_current_user" /\ last'.seq # last.seq) =>
          LET tok == last'.tok
              good == /\ tok.present /\ tok.signed /\ tok.exp >= now
                      /\ tok.sub # NoSub
                      /\ \E i \in DOMAIN users :
                            users[i].email = tok.sub /\ users[i].is_active
          IN  /\ last'.status = 200
              /\ IF good
                 THEN /\ last'.caller \in DOMAIN users
                      /\ users[last'.caller].email = tok.sub
                 ELSE last'.caller = None]_vars

(* ------------------------------------- SpecSort: the order of the listing *)
Essay == [Draft EXCEPT !.title = "World", !.body = "long body"]

SortNames == {"created_at", "title", "view_count", "id", "body", "metadata", "rank"}
SortOrders == {"asc", "desc", "ASC"}

InitSort == InitLoggedIn

NextSort ==
    \/ \E d \in {Draft, Essay} : create_blog(tokens[2], d)
    \/ get_blog(tokens[3], 1)
    \/ \E sort_by \in SortNames, sort_order \in SortOrders :
          get_blogs(tokens[2], AnyBlog, 1, MaxPerPage, sort_by, sort_order)
    \/ now < 3 /\ Tick(1)

SpecSort == InitSort /\ [][NextSort]_vars

\* the key the listing is said to be ordered by
ClaimedKey(bs, b, sort_by) ==
    CASE sort_by = "title" -> TitleRank(bs[b].title)
      [] sort_by = "view_count" -> bs[b].view_count
      [] OTHER -> bs[b].created_at

\* C24: get_blogs for an authenticated caller does not fail whatever sort_by
\* is; its items are ordered by sort_by when that is created_at, title or
\* view_count and by created_at otherwise, ascending exactly when sort_order
\* is "asc".
C24_SortFallback ==
    [][(last'.op = "get_blogs" /\ last'.seq # last.seq /\ last'.caller # None) =>
          /\ last'.status = 200
          /\ \A q \in last'.body :
                \A i, j \in DOMAIN last'.items :
                   i < j =>
                      LET ki == ClaimedKey(blogs, last'.items[i], q.sort_by)
                          kj == ClaimedKey(blogs, last'.items[j], q.sort_by)
                      IN  IF q.sort_order = "asc" THEN ki <= kj ELSE ki >= kj]_vars

(* ------------------------------------ SpecPassword: changing the password *)
PasswordInputs == {"Secr3t99", "Passw0rd", ShortPassword, LongPassword, LongerPassword}

InitPassword == InitLoggedIn

NextPassword ==
    \/ \E old_password, new_password \in PasswordInputs :
          change_password(tokens[2], old_password, new_password)
    \/ \E p \in PasswordInputs : login_user("b@x.com", p)

SpecPassword == InitPassword /\ [][NextPassword]_vars

\* C25: change_password answers 400 and keeps the stored hash when the old
\* password does not verify, the new one has fewer than 6 characters or the
\* two are equal; otherwise it succeeds, and then the new password verifies
\* against the stored hash, as login does, and the old one does not.
C25_ChangePassword ==
    [][(last'.op = "change_password" /\ last'.seq # last.seq /\ last'.caller # None) =>
          LET c == last'.caller
          IN  \A r \in last'.body :
                 IF \/ ~verify_password(r.old_password, users[c].password)
                    \/ PasswordLen(r.new_password) < 6
                    \/ r.new_password = r.old_password
                 THEN last'.status = 400 /\ users' = users
                 ELSE /\ last'.status = 200
                      /\ verify_password(r.new_password, users'[c].password)
                      /\ ~verify_password(r.old_password, users'[c].password)]_vars

(* --------------------------------- SpecUserBlogs: the blogs of one author *)
InitUserBlogs == InitLoggedIn

NextUserBlogs ==
    \/ \E p \in BOOLEAN : create_blog(tokens[2], Post(p))
    \/ create_blog(tokens[3], Post(FALSE))
    \/ \E tok \in {tokens[2], tokens[3]}, user_id \in {2, 3}, per_page \in {1, MaxBlogs},
          published_only \in BOOLEAN :
          get_user_blogs(tok, user_id, 1, per_page, published_only)
    \/ get_user_blogs(tokens[1], 2, 2, 1, FALSE)
    \/ get_user_blogs(tokens[1], MaxUsers + 1, 1, 1, FALSE)

SpecUserBlogs == InitUserBlogs /\ [][NextUserBlogs]_vars

\* C26: get_user_blogs returns blogs of the named user only, never an
\* unpublished one to another caller whatever published_only is, and to the
\* author asking with published_only = false, on a first page that is large
\* enough, all their blogs, unpublished ones included.
C26_UnpublishedPrivate ==
    [][(last'.op = "get_user_blogs" /\ last'.seq # last.seq /\ last'.status = 200) =>
          \A q \in last'.body :
             LET own == {b \in DOMAIN blogs : blogs[b].user_id = q.user_id}
                 got == Range(last'.items)
             IN  /\ got \subseteq own
                 /\ (last'.caller # q.user_id \/ q.published_only) =>
                       \A b \in got : blogs[b].is_published
                 /\ (/\ last'.caller = q.user_id /\ ~q.published_only
                     /\ q.page = 1 /\ q.per_page >= Cardinality(own)) =>
                       got = own]_vars

\* C26 witness: an author with a published and an unpublished blog has been
\* listed for another user, who got the published one only
C26_Witness ==
    /\ last.op = "get_user_blogs" /\ last.status = 200 /\ last.caller = 3
    /\ \E q \in last.body :
          /\ ~q.published_only
          /\ \E b, c \in DOMAIN blogs :
                /\ blogs[b].user_id = q.user_id /\ blogs[c].user_id = q.user_id
                /\ blogs[b].is_published /\ ~blogs[c].is_published
                /\ Range(last.items) = {b}

(* ------------------------------ SpecProfile: what a profile update writes *)
ProfileUpdates ==
    {UserUpdate({"name"}, "Robert", "b@x.com", TRUE),
     UserUpdate({"email"}, "Bob", "d@x.com", TRUE),
     UserUpdate({"name", "email"}, "Cyd", "c@x.com", TRUE),
     UserUpdate({"is_active"}, "Bob", "b@x.com", FALSE),
     UserUpdate({}, "Bob", "b@x.com", FALSE)}

InitProfile == InitLoggedIn

NextProfile ==
    \/ \E tok \in {tokens[2], tokens[3]}, d \in ProfileUpdates : update_my_profile(tok, d)
    \/ \E e \in {"b@x.com", "c@x.com", "d@x.com"} : login_user(e, "Secr3t99")
    \/ \E tok \in {tokens[2], tokens[3]} : get_current_user_info(tok)

SpecProfile == InitProfile /\ [][NextProfile]_vars

\* C27: update_my_profile changes at most the caller's name and email: the
\* caller's is_active, is_admin and password and every other user's record
\* are as before.
C27_ProfileFrame ==
    [][(last'.op = "update_my_profile" /\ last'.seq # last.seq /\ last'.caller # None) =>
          LET c == last'.caller
          IN  /\ DOMAIN users' = DOMAIN users
              /\ \A i \in DOMAIN users \ {c} : users'[i] = users[i]
              /\ users'[c].is_active = users[c].is_active
              /\ users'[c].is_admin = users[c].is_admin
              /\ users'[c].password = users[c].password]_vars

(* ------------------------- SpecViewRace: get_blog served by several processes *)
\* a server process between requests; served counts its 200 responses
Waiting(served) == [pc |-> "idle", blog_id |-> None, read |-> 0, caller |-> None,
                    tok |-> NoToken, served |-> served]

\* get_current_user and the query of get_blog: the blog row is loaded, and
\* with it the view_count this request will add one to
view_query(w, tok, blog_id) ==
    LET a == get_current_user(tok, users, now)
        st == IF a.status # 200 THEN a.status
              ELSE IF blog_id \notin DOMAIN blogs THEN 404
              ELSE 200
    IN  /\ reqs[w].pc = "idle"
        /\ st = 200 => blogs[blog_id].view_count < MaxViews
        /\ IF st = 200
           THEN /\ reqs' = [reqs EXCEPT ![w] = [pc |-> "loaded", blog_id |-> blog_id,
                                                read |-> blogs[blog_id].view_count,
                                                caller |-> a.user, tok |-> tok,
                                                served |-> @.served]]
                /\ UNCHANGED last
           ELSE /\ last' = Resp("get_blog", st, tok, a.user, blog_id)
                /\ UNCHANGED reqs
        /\ UNCHANGED <<users, tokens, now, categories, tags, blogs, nextBlogId, likes,
                       nextLikeId, comments, nextCommentId>>

\* blog.view_count += 1 on the loaded row and db.commit(): the UPDATE carries
\* the value computed from the row as it was loaded; the response is built
\* from the committed row
view_commit(w) ==
    LET r == reqs[w]
        ok == BlogResponseValid(blogs[r.blog_id])
    IN  /\ r.pc = "loaded"
        /\ blogs' = [blogs EXCEPT ![r.blog_id].view_count = r.read + 1]
        /\ last' = [Resp("get_blog", IF ok THEN 200 ELSE 500, r.tok, r.caller, r.blog_id)
                      EXCEPT !.body = {[view_count |-> r.read + 1]},
                             !.is_liked = /\ ok
                                          /\ \E l \in likes : l.blog_id = r.blog_id
                                                              /\ l.user_id = r.caller]
        /\ reqs' = [reqs EXCEPT ![w] = Waiting(IF ok THEN r.served + 1 ELSE r.served)]
        /\ UNCHANGED <<users, tokens, now, categories, tags, nextBlogId, likes,
                       nextLikeId, comments, nextCommentId>>

InitialViews == 0

InitViewRace ==
    /\ users = UsersABC
    /\ tokens = [i \in 1..MaxUsers |->
                   IF i \in DOMAIN UsersABC
                   THEN create_access_token(UsersABC[i].email, 1) ELSE NoToken]
    /\ now = 1
    /\ categories = {1}
    /\ tags = <<>>
    /\ blogs = <<>>
    /\ nextBlogId = 1
    /\ likes = {}
    /\ nextLikeId = 1
    /\ comments = {}
    /\ nextCommentId = 1
    /\ reqs = [w \in Workers |-> Waiting(0)]
    /\ last = NoResp

NextViewRace ==
    \/ blogs = <<>> /\ create_blog(tokens[2], Tagged(<<"Go">>))
    \/ \E w \in Workers, tok \in {tokens[2], tokens[3], NoToken}, blog_id \in {1, 2} :
          view_query(w, tok, blog_id)
    \/ \E w \in Workers : view_commit(w)

SpecViewRace == InitViewRace /\ [][NextViewRace]_vars

RECURSIVE Served(_)
Served(ws) ==
    IF ws = {} THEN 0
    ELSE LET w == CHOOSE x \in ws : TRUE
         IN  reqs[w].served + Served(ws \ {w})

\* no request is between its query and its commit
Quiescent == \A w \in Workers : reqs[w].pc = "idle"

\* the bounds of the counter once every request has been answered
ViewCountBounds ==
    (1 \in DOMAIN blogs /\ Quiescent /\ Served(Workers) >= 1) =>
        /\ blogs[1].view_count >= InitialViews + 1
        /\ blogs[1].view_count <= InitialViews + Served(Workers)

\* C28: under concurrent get_blog requests the final view_count is at least
\* the initial value plus 1 when a fetch succeeded and at most the initial
\* value plus the number of successful fetches, and no commit produces a
\* value lower than one already committed and returned.
C28_ViewCountRace ==
    /\ []ViewCountBounds
    /\ [][1 \in DOMAIN blogs => blogs'[1].view_count >= blogs[1].view_count]_vars

(* --------------------- SpecIdentity: whom a token names after email changes *)
Moves == {UserUpdate({"email"}, "Bob", e, TRUE) : e \in {"b@x.com", "d@x.com"}}

InitIdentity == InitStore

NextIdentity ==
    \/ \E e \in {"b@x.com", "d@x.com"}, p \in Passwords : login_user(e, p)
    \/ \E e \in {"b@x.com", "c@x.com"} : register_user("Cy", e, "Passw0rd")
    \/ \E tok \in Held, d \in Moves : update_my_profile(tok, d)
    \/ login_user("a@x.com", "Passw0rd")
    \/ \E d \in Moves : admin_update_user(tokens[1], 3, d)
    \/ \E tok \in Held : get_current_user_info(tok)

SpecIdentity == InitIdentity /\ [][NextIdentity]_vars

\* C29: the token handed to user i at login, when presented, resolves to
\* user i or is rejected, whatever registrations and email changes happened
\* in between.
C29_TokenIdentity ==
    [][(last'.op = "get_current_user_info" /\ last'.seq # last.seq /\ last'.tok.present) =>
          \A i \in DOMAIN tokens :
             (tokens[i] = last'.tok /\ \A j \in DOMAIN tokens \ {i} : tokens[j] # last'.tok)
                => (last'.status = 401 \/ last'.caller = i)]_vars

(* ----------------------- SpecPrivilege: who is an admin, who owns a blog *)
InitPrivilege == InitStore

NextPrivilege ==
    \/ register_user("Cy", "c@x.com", "Passw0rd")
    \/ \E e \in Emails : login_user(e, IF e = "b@x.com" THEN "Secr3t99" ELSE "Passw0rd")
    \/ \E d \in {Rename, UserUpdate({"is_active"}, "Bob", "b@x.com", FALSE)} :
          update_my_profile(tokens[2], d)
    \/ \E tok \in {tokens[1], tokens[2]}, id \in {2, 3}, d \in StatusUpdates :
          admin_update_user(tok, id, d)
    \/ \E tok \in {tokens[1], tokens[3]} : toggle_user_status(tok, 2)
    \/ \E tok \in {tokens[1], tokens[2]} : create_blog(tok, Draft)
    \/ \E tok \in {tokens[1], tokens[2], tokens[3]} : update_blog(tok, 1, Retitle)
    \/ delete_blog(tokens[1], 1)

SpecPrivilege == InitPrivilege /\ [][NextPrivilege]_vars

\* C30: a user appears only through register_user and then is no admin, no
\* request changes a user's is_admin, a blog appears only through
\* create_blog with the authenticated caller as its owner, and no request
\* changes a blog's user_id.
C30_PrivilegesFixed ==
    [][/\ \A i \in DOMAIN users' \ DOMAIN users :
             last'.op = "register_user" /\ ~users'[i].is_admin
       /\ \A i \in DOMAIN users \cap DOMAIN users' :
             users'[i].is_admin = users[i].is_admin
       /\ \A b \in DOMAIN blogs' \ DOMAIN blogs :
             /\ last'.op = "create_blog"
             /\ last'.caller \in DOMAIN users
             /\ blogs'[b].user_id = last'.caller
       /\ \A b \in DOMAIN blogs \cap DOMAIN blogs' :
             blogs'[b].user_id = blogs[b].user_id]_vars

\* a registered user exists, an admin has changed a user's record, and an
\* admin has just updated a blog of another user
C30_Witness ==
    /\ 3 \in DOMAIN users
    /\ ~users[3].is_active
    /\ last.op = "update_blog" /\ last.status = 200 /\ last.caller = 1
    /\ blogs[last.target].user_id = 2

====
